---- MODULE Spec2Model ----
(***************************************************************************)
(* Recovery techniques for unstructured LR B-splines (ASMu2Drecovery.C):   *)
(* getGrevilleParameters, expandTensorGrid, globalL2projection,            *)
(* evalMonomials, scRecovery and regularInterpolation.                     *)
(*                                                                         *)
(* Real numbers are exact rationals <<n, d>> (d > 0, lowest terms).  The   *)
(* spline library, the quadrature tables, the field evaluator and the      *)
(* linear solvers are collaborators of the file; they are modelled by the  *)
(* interface the file uses.                                                *)
(***************************************************************************)
EXTENDS Integers, Sequences, FiniteSets, TLC

VARIABLES
    op,        \* the operation this behaviour runs
    pc,        \* position inside the running operation
    lrspline,  \* ASMu2D::lrspline: a mesh, or NULL when the patch is empty
    inp,       \* the arguments of the call and the collaborators' scenario
    grid,      \* expandTensorGrid: the arrays in[0], in[1], out[0], out[1]
    prm,       \* getGrevilleParameters: the in/out array prm
    ret,       \* the value the operation returned ("none" while running)
    sField,    \* globalL2projection: the in/out matrix sField
    A,         \* the matrix of the linear system being assembled
    B,         \* its right-hand side
    iel,       \* globalL2projection: element counter of the assembly loop
    log,       \* calls made to the collaborators so far
    ipG,       \* scRecovery: ip, the number of Greville points recovered so far
    sValues,   \* scRecovery: the recovered values, (component, basis function)
    ans        \* the mesh object returned by the interpolation, or NoMesh

vars == <<op, pc, lrspline, inp, grid, prm, ret, sField, A, B, iel, log,
          ipG, sValues, ans>>

\* ------------------------------------------------------------------ bounds

\* longest per-direction array handed to expandTensorGrid / prm before a call
MaxLen == 2
\* largest array entry / field coefficient drawn for an input
MaxVal == 2
\* largest number of field components (IntegrandBase::getNoFields)
MaxComp == 2

\* the null pointer held by lrspline for an empty patch
NULL == [kind |-> "null", nu |-> 0, nv |-> 0, rat |-> FALSE]
\* the null pointer returned in place of a mesh object
NoMesh == [mesh |-> NULL, dim |-> 0, cp |-> <<>>]
\* the null pointer returned for a quadrature order without a table
NoTable == <<>>

\* ------------------------------------------------------- exact real numbers

Abs(x) == IF x < 0 THEN -x ELSE x

RECURSIVE GCD(_, _)
GCD(a, b) == IF b = 0 THEN a ELSE GCD(b, a % b)

Norm(n, d) ==
    LET g == GCD(Abs(n), Abs(d))
        s == IF d < 0 THEN -1 ELSE 1
    IN  <<(s * n) \div g, (s * d) \div g>>

R(n) == <<n, 1>>
RZero == <<0, 1>>
ROne == <<1, 1>>
Frac(n, d) == Norm(n, d)
\* sums and products cancel common factors first, to keep the numbers small;
\* the comparisons x = x, y = y make the checker compute the operands
\* before it enters the arithmetic
RAdd(x, y) ==
    IF x = x /\ y = y
    THEN LET g == GCD(x[2], y[2])
         IN  Norm(x[1] * (y[2] \div g) + y[1] * (x[2] \div g), (x[2] \div g) * y[2])
    ELSE x
RNeg(x) == <<-x[1], x[2]>>
RSub(x, y) == RAdd(x, RNeg(y))
RMul(x, y) ==
    IF x = x /\ y = y
    THEN LET g1 == GCD(Abs(x[1]), y[2])
             g2 == GCD(Abs(y[1]), x[2])
         IN  Norm((x[1] \div g1) * (y[1] \div g2), (x[2] \div g2) * (y[2] \div g1))
    ELSE x
RInv(x) == IF x[1] < 0 THEN <<-x[2], -x[1]>> ELSE <<x[2], x[1]>>
RDiv(x, y) == RMul(x, RInv(y))
RLess(x, y) == x[1] * y[2] < y[1] * x[2]
RLeq(x, y) == x[1] * y[2] <= y[1] * x[2]
RAbs(x) == <<Abs(x[1]), x[2]>>

RECURSIVE RSumRange(_, _, _)
\* f[lo] + ... + f[hi] for a function (or sequence) f of reals, summed by
\* halves
RSumRange(f, lo, hi) ==
    IF lo > hi THEN RZero
    ELSE IF lo = hi THEN f[lo]
    ELSE RAdd(RSumRange(f, lo, (lo + hi) \div 2),
              RSumRange(f, ((lo + hi) \div 2) + 1, hi))

\* f[1] + ... + f[n]
RSumTo(f, n) == RSumRange(f, 1, n)

RSum(s) == RSumTo(s, Len(s))

RECURSIVE RPow(_, _)
RPow(x, k) == IF k = 0 THEN ROne ELSE RMul(RPow(x, k - 1), x)

\* TRUE; comparing v makes the checker compute the value v denotes in full
\* before the next pass of a loop uses it
Evaluated(v) == v = v

\* the sequence f[1], ..., f[n] with its entries computed
Computed(f, n) == SubSeq(f, 1, n)

\* an nr x nc matrix of zeros, as a sequence of rows
ZeroMatrix(nr, nc) == [i \in 1..nr |-> [j \in 1..nc |-> RZero]]
ZeroVector(n) == [i \in 1..n |-> RZero]
Rows(M) == Len(M)
Cols(M) == IF Len(M) = 0 THEN 0 ELSE Len(M[1])

\* ------------------------------------------------ the LR spline mesh (library)

\* A mesh is a tensor grid of nu x nv unit knot spans carrying either the
\* bilinear basis (kind "Q", order 2) or the piecewise constant one (kind
\* "P", order 1); rat tells whether the basis is rational.
Mesh(kind, nu, nv) == [kind |-> kind, nu |-> nu, nv |-> nv, rat |-> FALSE]

\* LR::LRSplineSurface::order(dir)
order(m, dir) == IF m.kind = "Q" THEN 2 ELSE 1

\* number of basis functions per direction
nDir(m, dir) ==
    LET n == IF dir = 0 THEN m.nu ELSE m.nv
    IN  IF m.kind = "Q" THEN n + 1 ELSE n

\* LR::LRSplineSurface::nBasisFunctions()
nBasisFunctions(m) == nDir(m, 0) * nDir(m, 1)

\* number of elements (elementBegin() .. elementEnd())
nElements(m) == m.nu * m.nv

\* index pair (a, b), 0-based, of basis function k (1-based, first direction
\* fastest): the enumeration order of getAllBasisfunctions()
BasisIdx(m, k) == <<(k - 1) % nDir(m, 0), (k - 1) \div nDir(m, 0)>>

\* index pair of element e (1-based)
ElemIdx(m, e) == <<(e - 1) % m.nu, (e - 1) \div m.nu>>

\* LR::Basisfunction::getGrevilleParameter(): (u, v) of basis function k
getGrevilleParameter(m, k) ==
    LET ab == BasisIdx(m, k)
    IN  IF m.kind = "Q"
        THEN <<R(ab[1]), R(ab[2])>>
        ELSE <<Frac(2 * ab[1] + 1, 2), Frac(2 * ab[2] + 1, 2)>>

\* the univariate B-spline of the basis with index a, at parameter t
Bspline1(m, a, t) ==
    IF m.kind = "Q"
    THEN LET d == RAbs(RSub(t, R(a)))
         IN  IF RLess(d, ROne) THEN RSub(ROne, d) ELSE RZero
    ELSE IF RLeq(R(a), t) /\ RLess(t, R(a + 1)) THEN ROne ELSE RZero

\* value of basis function k at the parametric point (u, v)
BasisValue(m, k, u, v) ==
    LET ab == BasisIdx(m, k)
    IN  RMul(Bspline1(m, ab[1], u), Bspline1(m, ab[2], v))

\* MNPC[iel-1]: the 0-based global indices of the basis functions of element e
MNPC(m, e) ==
    LET ab == ElemIdx(m, e)
        n0 == nDir(m, 0)
        node(a, b) == b * n0 + a
    IN  IF m.kind = "Q"
        THEN <<node(ab[1], ab[2]), node(ab[1] + 1, ab[2]),
               node(ab[1], ab[2] + 1), node(ab[1] + 1, ab[2] + 1)>>
        ELSE <<node(ab[1], ab[2])>>

\* lrspline->computeBasis(u,v,spl,iel-1): values of the element's functions
computeBasis(m, u, v, e) ==
    [ii \in 1..Len(MNPC(m, e)) |-> BasisValue(m, MNPC(m, e)[ii] + 1, u, v)]

\* lrspline->computeBasis(u,v,spl): the full dense vector of all functions
computeBasisAll(m, u, v) ==
    [j \in 1..nBasisFunctions(m) |-> BasisValue(m, j, u, v)]

\* the elements in the support of basis function k, in element order
supportedElements(m, k) ==
    {e \in 1..nElements(m) : \E ii \in 1..Len(MNPC(m, e)) : MNPC(m, e)[ii] + 1 = k}

\* the elements of S as an increasing sequence
RECURSIVE SortedSeq(_)
SortedSeq(S) ==
    IF S = {} THEN <<>>
    ELSE LET x == CHOOSE y \in S : \A z \in S : y <= z
         IN  <<x>> \o SortedSeq(S \ {x})

\* LR::Basisfunction::getExtendedSupport(): the elements supporting any basis
\* function whose support overlaps that of basis function k
getExtendedSupport(m, k) ==
    SortedSeq(UNION {supportedElements(m, q) :
        q \in {q \in 1..nBasisFunctions(m) :
                  supportedElements(m, q) \cap supportedElements(m, k) # {}}})

\* the geometry control point of basis function k: the patch is the image
\* of the parameter domain under (u, v) -> (2u, v)
ControlPoint(m, k) ==
    <<RMul(R(2), getGrevilleParameter(m, k)[1]), getGrevilleParameter(m, k)[2]>>

\* lrspline->point(X,u,v): the physical coordinates of the point (u, v)
point(m, u, v) ==
    <<RSum([k \in 1..nBasisFunctions(m) |->
              RMul(ControlPoint(m, k)[1], BasisValue(m, k, u, v))]),
      RSum([k \in 1..nBasisFunctions(m) |->
              RMul(ControlPoint(m, k)[2], BasisValue(m, k, u, v))])>>

\* ------------------------------------------------------ Gauss quadrature

\* GaussQuadrature::getCoord(n): NULL for an order without a table.  The
\* two-point abscissae stand at -1/2, 1/2.
getCoord(n) ==
    IF n = 1 THEN <<RZero>>
    ELSE IF n = 2 THEN <<Frac(-1, 2), Frac(1, 2)>>
    ELSE NoTable

\* GaussQuadrature::getWeight(n)
getWeight(n) ==
    IF n = 1 THEN <<R(2)>>
    ELSE IF n = 2 THEN <<ROne, ROne>>
    ELSE NoTable

\* ASMu2D::getGaussPointParameters(uGP,dir,nGauss,iel,xi): the parameters
\* of the Gauss points of element e in direction dir
getGaussPointParameters(m, dir, ng, e, xi) ==
    LET a == ElemIdx(m, e)[dir + 1]
        start == R(a)
        stop == R(a + 1)
    IN  [i \in 1..ng |->
            RMul(Frac(1, 2),
                 RAdd(RMul(RSub(stop, start), xi[i]), RAdd(stop, start)))]

\* ------------------------------------------------------- expandTensorGrid

RECURSIVE expandLoopMutant(_, _, _, _, _)
\* the loop with the directions exchanged (in[1] running fastest)
expandLoopMutant(in, out, j, i, ip) ==
    IF j > Len(in[1]) THEN out
    ELSE IF i > Len(in[2]) THEN expandLoopMutant(in, out, j + 1, 1, ip)
    ELSE expandLoopMutant(in,
            <<[out[1] EXCEPT ![ip] = in[1][j]], [out[2] EXCEPT ![ip] = in[2][i]]>>,
            j, i + 1, ip + 1)

RECURSIVE expandLoop(_, _, _, _, _)
\* for (j..in[1].size()) for (i..in[0].size(); i++, ip++)
\*   out[0][ip] = in[0][i]; out[1][ip] = in[1][j];
\* in = <<in[0], in[1]>>, out = <<out[0], out[1]>>, indices 1-based
expandLoop(in, out, j, i, ip) ==
    IF j > Len(in[2]) THEN out
    ELSE IF i > Len(in[1]) THEN expandLoop(in, out, j + 1, 1, ip)
    ELSE expandLoop(in,
            <<[out[1] EXCEPT ![ip] = in[1][i]], [out[2] EXCEPT ![ip] = in[2][j]]>>,
            j, i + 1, ip + 1)

\* std::vector::resize(n): keeps the first n entries, pads with zeros
resize(a, n, zero) == [k \in 1..n |-> IF k <= Len(a) THEN a[k] ELSE zero]

\* expandTensorGrid(in,out): the new contents of out
expandTensorGrid(in, out, zero) ==
    LET n == Len(in[1]) * Len(in[2])
    IN  expandLoop(in, <<resize(out[1], n, zero), resize(out[2], n, zero)>>, 1, 1, 1)

\* ------------------------------------------------- getGrevilleParameters

RECURSIVE grevillePushMutant(_, _, _, _)
\* the loop reading the other direction's coordinate
grevillePushMutant(m, a, dir, k) ==
    IF k > nBasisFunctions(m) THEN a
    ELSE grevillePushMutant(m, Append(a, getGrevilleParameter(m, k)[2 - dir]), dir, k + 1)

RECURSIVE grevillePush(_, _, _, _)
\* for (b : getAllBasisfunctions()) prm.push_back(b->getGrevilleParameter()[dir])
grevillePush(m, a, dir, k) ==
    IF k > nBasisFunctions(m) THEN a
    ELSE grevillePush(m, Append(a, getGrevilleParameter(m, k)[dir + 1]), dir, k + 1)

\* prm.clear() with the clear left out
grevilleClearMutant(a) == a

\* prm.clear()
grevilleClear(a) == <<>>

\* the guard rejecting direction 0 as well
getGrevilleParametersMutant(m, a, dir) ==
    IF m = NULL \/ dir < 1 \/ dir > 1 THEN <<FALSE, a>>
    ELSE <<TRUE, grevillePush(m, grevilleClear(a), dir, 1)>>

\* getGrevilleParameters(prm,dir): <<returned flag, prm after the call>>
getGrevilleParameters(m, a, dir) ==
    IF m = NULL \/ dir < 0 \/ dir > 1 THEN <<FALSE, a>>
    ELSE <<TRUE, grevillePush(m, grevilleClear(a), dir, 1)>>

\* ------------------------------------------------------------ input sets

\* sequences over S of length at most n
RECURSIVE SeqsUpTo(_, _)
SeqsUpTo(S, n) ==
    IF n = 0 THEN {<<>>}
    ELSE LET T == SeqsUpTo(S, n - 1)
         IN  T \cup {Append(t, x) : t \in {q \in T : Len(q) = n - 1}, x \in S}

Values == 0..MaxVal
RealValues == {R(x) : x \in Values}

\* ------------------------------------------- behaviours of expandTensorGrid

InitGrid ==
    /\ op = "expandTensorGrid"
    /\ pc = "call"
    /\ lrspline = NULL
    /\ inp = <<>>
    /\ \E in0 \in SeqsUpTo(Values, MaxLen), in1 \in SeqsUpTo(Values, MaxLen) :
           grid = [in |-> <<in0, in1>>, out |-> <<<<>>, <<>>>>]
    /\ prm = <<>>
    /\ ret = "none"
    /\ sField = <<>>
    /\ A = <<>>
    /\ B = <<>>
    /\ iel = 0
    /\ log = <<>>
    /\ ipG = 0
    /\ sValues = <<>>
    /\ ans = NoMesh

GridCall ==
    /\ op = "expandTensorGrid"
    /\ pc = "call"
    /\ grid' = [grid EXCEPT !.out = expandTensorGrid(grid.in, grid.out, 0)]
    /\ pc' = "done"
    /\ ret' = "void"
    /\ UNCHANGED <<op, lrspline, inp, prm, sField, A, B, iel, log, ipG, sValues, ans>>

NextGrid == GridCall

SpecGrid == InitGrid /\ [][NextGrid]_vars

\* C1: expandTensorGrid: for inputs of length m and n both outputs have
\* length m*n, out0[i*m+k] = in0[k] and out1[i*m+k] = in1[i] for all
\* 0 <= k < m, 0 <= i < n (0-based; the first direction runs fastest), and
\* both outputs are empty when either input is.
C1_TensorGrid ==
    (op = "expandTensorGrid" /\ pc = "done") =>
        LET in0 == grid.in[1]
            in1 == grid.in[2]
            m == Len(in0)
            n == Len(in1)
        IN  /\ Len(grid.out[1]) = m * n
            /\ Len(grid.out[2]) = m * n
            /\ \A k \in 0..(m - 1), i \in 0..(n - 1) :
                   /\ grid.out[1][i * m + k + 1] = in0[k + 1]
                   /\ grid.out[2][i * m + k + 1] = in1[i + 1]
            /\ (m = 0 \/ n = 0) => (grid.out[1] = <<>> /\ grid.out[2] = <<>>)

\* a finished expansion of two arrays of two distinct entries each
C1_Witness ==
    /\ op = "expandTensorGrid"
    /\ pc = "done"
    /\ grid.in = <<<<0, 1>>, <<1, 2>>>>
    /\ grid.out = <<<<0, 1, 0, 1>>, <<1, 1, 2, 2>>>>

\* -------------------------------------- behaviours of getGrevilleParameters

Q11 == Mesh("Q", 1, 1)
Q21 == Mesh("Q", 2, 1)
Q22 == Mesh("Q", 2, 2)
Q32 == Mesh("Q", 3, 2)
P21 == Mesh("P", 2, 1)

InitGrev ==
    /\ op = "getGrevilleParameters"
    /\ pc = "call"
    /\ lrspline \in {NULL, Q11, Q21, Q22, P21}
    /\ \E dir \in -1..2, p0 \in SeqsUpTo(RealValues, MaxLen) :
           /\ inp = [dir |-> dir, prm0 |-> p0]
           /\ prm = p0
    /\ grid = <<>>
    /\ ret = "none"
    /\ sField = <<>>
    /\ A = <<>>
    /\ B = <<>>
    /\ iel = 0
    /\ log = <<>>
    /\ ipG = 0
    /\ sValues = <<>>
    /\ ans = NoMesh

GrevCall ==
    /\ op = "getGrevilleParameters"
    /\ pc = "call"
    /\ LET r == getGrevilleParameters(lrspline, prm, inp.dir)
       IN  /\ ret' = r[1]
           /\ prm' = r[2]
    /\ pc' = "done"
    /\ UNCHANGED <<op, lrspline, inp, grid, sField, A, B, iel, log, ipG, sValues, ans>>

NextGrev == GrevCall

SpecGrev == InitGrev /\ [][NextGrev]_vars

\* C2: getGrevilleParameters: for a present mesh and dir in {0,1} the call
\* succeeds and prm holds exactly nBasisFunctions entries, the k-th being the
\* dir-th Greville coordinate of the k-th basis function, whatever prm held
\* before the call.
C2_GrevilleOnePerBasis ==
    (op = "getGrevilleParameters" /\ pc = "done"
        /\ lrspline # NULL /\ inp.dir \in {0, 1}) =>
        /\ ret = TRUE
        /\ Len(prm) = nBasisFunctions(lrspline)
        /\ \A k \in 1..nBasisFunctions(lrspline) :
               prm[k] = getGrevilleParameter(lrspline, k)[inp.dir + 1]

\* a successful call on the two-element mesh whose array was not empty before
C2_Witness ==
    /\ op = "getGrevilleParameters"
    /\ pc = "done"
    /\ lrspline = Q21
    /\ inp.dir = 0
    /\ Len(inp.prm0) = 2
    /\ ret = TRUE
    /\ prm = <<R(0), R(1), R(2), R(0), R(1), R(2)>>

\* C3: getGrevilleParameters returns false exactly when the mesh is absent
\* or dir is outside {0,1}, and then leaves prm as it was before the call.
C3_GrevilleFails ==
    (op = "getGrevilleParameters" /\ pc = "done") =>
        /\ (ret = FALSE) <=> (lrspline = NULL \/ inp.dir \notin {0, 1})
        /\ (ret = FALSE) => (prm = inp.prm0)

\* a failed call on a present mesh (dir = 2) that found prm filled
C3_Witness ==
    /\ op = "getGrevilleParameters"
    /\ pc = "done"
    /\ lrspline = Q11
    /\ inp.dir = 2
    /\ ret = FALSE
    /\ prm = <<R(1), R(2)>>

\* ------------------------------------------------ the field and its evaluator

\* coefficient of basis function k for component r of a field in the basis
Coef(f, r, k) == R(f.a * k + r)

\* coefficient of x^i*y^j in component r of a polynomial field
PolyCoef(f, r, i, j) == IF i <= f.a /\ j <= f.a THEN R(r + i + 2 * j) ELSE RZero

\* value at the physical point (x, y) of component r of the polynomial field
\* of degree f.a in each direction
PolyValue(f, r, x, y) ==
    RSum([i \in 1..(f.a + 1) |->
        RSum([j \in 1..(f.a + 1) |->
            RMul(PolyCoef(f, r, i - 1, j - 1), RMul(RPow(x, i - 1), RPow(y, j - 1)))])])

\* the secondary solution of the integrand at the parametric point (u, v):
\* a combination of the basis functions (a constant when f.a = 0), a
\* polynomial in the physical coordinates, or the field u*u + r*v, which the
\* bilinear and constant bases do not contain
FieldValue(m, f, r, u, v) ==
    IF f.kind = "basis"
    THEN RSum([k \in 1..nBasisFunctions(m) |->
                  RMul(Coef(f, r, k), BasisValue(m, k, u, v))])
    ELSE IF f.kind = "poly"
    THEN PolyValue(f, r, point(m, u, v)[1], point(m, u, v)[2])
    ELSE RAdd(RMul(u, u), RMul(R(r), v))

\* ASMu2D::evalSolution(sField,integrand,gpar): the ncomp x npoints matrix of
\* the field at the points (gpar[0][p], gpar[1][p])
evalSolution(m, f, ncomp, gpar) ==
    [r \in 1..ncomp |->
        [p \in 1..Len(gpar[1]) |-> FieldValue(m, f, r, gpar[1][p], gpar[2][p])]]

\* ------------------------------------------------------- the linear solvers

\* row i of M with factor * row p subtracted
RowSub(M, i, p, factor) ==
    [c \in 1..Len(M[i]) |-> RSub(M[i][c], RMul(factor, M[p][c]))]

\* the first row at or below row c with a nonzero entry in column c, 0 if none
RECURSIVE PivotRow(_, _, _)
PivotRow(M, c, i) ==
    IF i > Len(M) THEN 0
    ELSE IF M[i][c] # RZero THEN i
    ELSE PivotRow(M, c, i + 1)

\* Gauss-Jordan elimination of the augmented matrix M on columns c..n:
\* <<>> when the matrix is singular, the reduced matrix otherwise
RECURSIVE Eliminate(_, _, _)
Eliminate(M, n, c) ==
    IF c > n THEN M
    ELSE LET p == PivotRow(M, c, c)
         IN  IF p = 0 THEN <<>>
             ELSE LET S == [M EXCEPT ![c] = M[p], ![p] = M[c]]
                      piv == S[c][c]
                      N == [S EXCEPT ![c] = [k \in 1..Len(S[c]) |-> RDiv(S[c][k], piv)]]
                      E == [i \in 1..Len(N) |->
                               IF i = c THEN N[c] ELSE RowSub(N, i, c, N[i][c])]
                  IN  IF Evaluated(E) THEN Eliminate(E, n, c + 1) ELSE <<>>

\* solution of Am * X = Rhs (Rhs a matrix with one column per right-hand
\* side): <<TRUE, X>>, or <<FALSE, Rhs>> for a singular matrix
DirectSolve(Am, Rhs) ==
    LET n == Len(Am)
        nr == Cols(Rhs)
        Aug == [i \in 1..n |->
                   [c \in 1..(n + nr) |-> IF c <= n THEN Am[i][c] ELSE Rhs[i][c - n]]]
        E == Eliminate(Aug, n, 1)
    IN  IF E = <<>> THEN <<FALSE, Rhs>>
        ELSE <<TRUE, [i \in 1..n |-> [c \in 1..nr |-> E[i][n + c]]]>>

\* SparseMatrix::solve(B) for B holding ncomp right-hand sides of length
\* nnod one after the other: <<success, B after the call>>
SparseSolve(Am, Bv, nnod, ncomp) ==
    LET Rhs == [i \in 1..nnod |-> [r \in 1..ncomp |-> Bv[i + (r - 1) * nnod]]]
        s == DirectSolve(Am, Rhs)
    IN  IF s[1]
        THEN <<TRUE, [q \in 1..(nnod * ncomp) |->
                        s[2][((q - 1) % nnod) + 1][((q - 1) \div nnod) + 1]]>>
        ELSE <<FALSE, Bv>>

\* ----------------------------------------------------- globalL2projection

\* ASMu2D::getNoNodes()
getNoNodes(m) == nBasisFunctions(m)

\* ASMu2D::getElementCoordinates(Xnod,iel): whether the extraction succeeds
getElementCoordinates(flt, e) == ~(flt.kind = "coord" /\ flt.at = e)

\* ASMu2D::getParametricArea(iel): the area of the knot span, negative for
\* an element with a topology error
getParametricArea(flt, e) ==
    IF flt.kind = "area" /\ flt.at = e THEN R(-1) ELSE ROne

\* utl::Jacobian(Jac,dNdu,Xnod,dNdu,false): the Jacobian determinant at
\* Gauss point ip (1-based) of element e; zero where the geometry degenerates
Jacobian(flt, e, ip) ==
    IF flt.kind = "zeroJ" /\ flt.at = e /\ flt.pt = ip THEN RZero ELSE R(2)

\* the element checks with the sign of the area not looked at
elementRejectedMutant(continuous, coordsOk, dA) == continuous /\ ~coordsOk

\* if (continuous) { if (!getElementCoordinates(Xnod,iel)) return false;
\*   else if ((dA = 0.25*getParametricArea(iel)) < 0.0) return false; }
elementRejected(continuous, coordsOk, dA) ==
    continuous /\ (~coordsOk \/ RLess(dA, RZero))

\* if (!xg || !yg) return false; if (continuous && !wg) return false;
quadratureMissing(continuous, xg, yg, wg) ==
    xg = NoTable \/ yg = NoTable \/ (continuous /\ wg = NoTable)

\* const int ng1 = continuous ? nGauss : p1 - 1;
ng(m, continuous, nGauss, dir) ==
    IF continuous THEN nGauss ELSE order(m, dir) - 1

RECURSIVE scatterAMutant(_, _, _, _, _, _)
\* the matrix entries summed without the weight factor
scatterAMutant(Am, phi, mnpc, dJw, ii, jj) ==
    IF ii > Len(phi) THEN Am
    ELSE IF jj > Len(phi) THEN scatterAMutant(Am, phi, mnpc, dJw, ii + 1, 1)
    ELSE LET inod == mnpc[ii] + 1
             jnod == mnpc[jj] + 1
         IN  scatterAMutant([Am EXCEPT ![inod][jnod] = RAdd(@, RMul(phi[ii], phi[jj]))],
                            phi, mnpc, dJw, ii, jj + 1)

RECURSIVE scatterA(_, _, _, _, _, _)
\* for ii, for jj: A(inod,jnod) += phi[ii]*phi[jj]*dJw
scatterA(Am, phi, mnpc, dJw, ii, jj) ==
    IF ii > Len(phi) THEN Am
    ELSE IF jj > Len(phi) THEN scatterA(Am, phi, mnpc, dJw, ii + 1, 1)
    ELSE LET inod == mnpc[ii] + 1
             jnod == mnpc[jj] + 1
         IN  scatterA([Am EXCEPT ![inod][jnod] =
                          RAdd(@, RMul(RMul(phi[ii], phi[jj]), dJw))],
                      phi, mnpc, dJw, ii, jj + 1)

RECURSIVE scatterBMutant(_, _, _, _, _, _, _, _, _, _)
\* the right-hand side accumulated without the weight factor dJw
scatterBMutant(Bv, phi, mnpc, sF, ip, dJw, nnod, ncomp, ii, r) ==
    IF ii > Len(phi) THEN Bv
    ELSE IF r > ncomp
    THEN scatterBMutant(Bv, phi, mnpc, sF, ip, dJw, nnod, ncomp, ii + 1, 1)
    ELSE LET inod == mnpc[ii] + 1
         IN  scatterBMutant([Bv EXCEPT ![inod + (r - 1) * nnod] =
                                RAdd(@, RMul(phi[ii], sF[r][ip]))],
                            phi, mnpc, sF, ip, dJw, nnod, ncomp, ii, r + 1)

RECURSIVE scatterB(_, _, _, _, _, _, _, _, _, _)
\* for ii, for r: B(inod+(r-1)*nnod) += phi[ii]*sField(r,ip+1)*dJw
\* (ip is the 1-based column here)
scatterB(Bv, phi, mnpc, sF, ip, dJw, nnod, ncomp, ii, r) ==
    IF ii > Len(phi) THEN Bv
    ELSE IF r > ncomp THEN scatterB(Bv, phi, mnpc, sF, ip, dJw, nnod, ncomp, ii + 1, 1)
    ELSE LET inod == mnpc[ii] + 1
         IN  scatterB([Bv EXCEPT ![inod + (r - 1) * nnod] =
                          RAdd(@, RMul(RMul(phi[ii], sF[r][ip]), dJw))],
                      phi, mnpc, sF, ip, dJw, nnod, ncomp, ii, r + 1)

\* dJw = dA*wg[i]*wg[j]*utl::Jacobian(...) in continuous mode, 1.0 otherwise
dJwOf(c, e, i, j, ip) ==
    IF c.continuous
    THEN RMul(RMul(RMul(c.dA, c.wg[i]), c.wg[j]), Jacobian(c.flt, e, ip))
    ELSE ROne

\* a singular point ending the integration of the element (break)
afterSkipMutant(c, j, i, ip) == <<c.ng2 + 1, 1, ip>>

\* continue: the loop header still advances i and ip
afterSkip(c, j, i, ip) == <<j, i + 1, ip + 1>>

\* if (dJw == 0.0) continue; (continuous mode only)
skipPoint(c, dJw) == c.continuous /\ dJw = RZero

RECURSIVE integrate(_, _, _, _, _, _, _)
\* the integration loop over the Gauss points of element e: for (j < ng2)
\* for (i < ng1; i++, ip++); AB = <<A, B>>, c the constants of the call,
\* gpar the per-direction parameters, i, j, ip 1-based
integrate(AB, c, e, gpar, j, i, ip) ==
    IF j > c.ng2 THEN AB
    ELSE IF i > c.ng1 THEN integrate(AB, c, e, gpar, j + 1, 1, ip)
    ELSE LET phi == computeBasis(c.m, gpar[1][i], gpar[2][j], e)
             dJw == dJwOf(c, e, i, j, ip)
             AB1 == <<scatterA(AB[1], phi, MNPC(c.m, e), dJw, 1, 1),
                      scatterB(AB[2], phi, MNPC(c.m, e), c.sF, ip, dJw,
                               c.nnod, c.ncomp, 1, 1)>>
         IN  IF skipPoint(c, dJw)
             THEN LET nx == afterSkip(c, j, i, ip)
                  IN  integrate(AB, c, e, gpar, nx[1], nx[2], nx[3])
             ELSE IF Evaluated(AB1)
             THEN integrate(AB1, c, e, gpar, j, i + 1, ip + 1)
             ELSE AB

\* the per-direction Gauss point parameters of element e
gaussPar(m, n1, n2, e) ==
    <<getGaussPointParameters(m, 0, n1, e, getCoord(n1)),
      getGaussPointParameters(m, 1, n2, e, getCoord(n2))>>

\* the unstructured parameters of the Gauss points of element e
unstrGpar(m, n1, n2, e) ==
    expandTensorGrid(gaussPar(m, n1, n2, e), <<<<>>, <<>>>>, RZero)

\* sField.resize(ncomp,nnod); sField(j,i) = B(i+(j-1)*nnod) with the
\* component and node indices exchanged
storeFieldMutant(Bv, ncomp, nnod) ==
    [j \in 1..ncomp |-> [i \in 1..nnod |-> Bv[j + ((i - 1) % ncomp) * nnod]]]

\* sField.resize(ncomp,nnod); sField(j,i) = B(i+(j-1)*nnod)
storeField(Bv, ncomp, nnod) ==
    [j \in 1..ncomp |-> [i \in 1..nnod |-> Bv[i + (j - 1) * nnod]]]

\* the store made whether or not the solve succeeded
sFieldAfterSolveMutant(s, sF, ncomp, nnod) == storeField(s[2], ncomp, nnod)

\* if (!A.solve(B)) return false; ... sField(j,i) = B(i+(j-1)*nnod);
\* s = <<success, B after the solve>>, sF the matrix before
sFieldAfterSolve(s, sF, ncomp, nnod) ==
    IF s[1] THEN storeField(s[2], ncomp, nnod) ELSE sF

NoCalls == [getCoord |-> 0, getWeight |-> 0, coords |-> 0, area |-> 0,
            evalSolution |-> 0, solve |-> 0, copy |-> 0,
            order |-> 0, interpolate |-> 0, passes |-> 0,
            sampled |-> <<>>, written |-> <<>>]

\* the constants of a running call
L2c ==
    [m |-> lrspline, continuous |-> inp.continuous, flt |-> inp.fault,
     ng1 |-> ng(lrspline, inp.continuous, inp.nGauss, 0),
     ng2 |-> ng(lrspline, inp.continuous, inp.nGauss, 1),
     wg |-> IF inp.continuous THEN getWeight(inp.nGauss) ELSE NoTable,
     nnod |-> getNoNodes(lrspline), ncomp |-> inp.ncomp]

\* an empty patch reported as a failure
emptyPatchResultMutant == FALSE

\* if (!lrspline) return true; // silently ignore empty patches
emptyPatchResult == TRUE

\* lines 102-126: the empty-patch return, the quadrature lookup, the set-up
L2Begin ==
    /\ op = "globalL2projection"
    /\ pc = "call"
    /\ IF lrspline = NULL
       THEN /\ ret' = emptyPatchResult
            /\ pc' = "done"
            /\ UNCHANGED <<A, B, iel, log>>
       ELSE LET c == L2c
                xg == getCoord(c.ng1)
                yg == getCoord(c.ng2)
                lg == [log EXCEPT !.getCoord = 2,
                                  !.getWeight = IF inp.continuous THEN 1 ELSE 0]
            IN  IF quadratureMissing(inp.continuous, xg, yg, c.wg)
                THEN /\ ret' = FALSE
                     /\ pc' = "done"
                     /\ log' = lg
                     /\ UNCHANGED <<A, B, iel>>
                ELSE /\ A' = ZeroMatrix(c.nnod, c.nnod)
                     /\ B' = ZeroVector(c.nnod * c.ncomp)
                     /\ iel' = 1
                     /\ pc' = "loop"
                     /\ log' = lg
                     /\ UNCHANGED ret
    /\ UNCHANGED <<op, lrspline, inp, grid, prm, sField, ipG, sValues, ans>>

\* a failed evaluation taken for a success
evalFailsMutant(flt, e) == FALSE

\* if (!this->evalSolution(sField,integrand,...)) return ...; the evaluator
\* fails at its first call for the element the scenario names
evalFails(flt, e) == flt.kind = "eval" /\ flt.at = e

\* lines 136-199: one pass of the assembly loop, for element iel
L2Element ==
    /\ op = "globalL2projection"
    /\ pc = "loop"
    /\ iel <= nElements(lrspline)
    /\ LET c0 == L2c
           coordsOk == getElementCoordinates(inp.fault, iel)
           area == getParametricArea(inp.fault, iel)
           dA == RMul(Frac(1, 4), area)
           early == elementRejected(inp.continuous, coordsOk, dA)
           lg1 == IF inp.continuous
                  THEN [log EXCEPT !.coords = @ + 1,
                                   !.area = IF coordsOk THEN @ + 1 ELSE @]
                  ELSE log
       IN  IF early
           THEN /\ ret' = FALSE
                /\ pc' = "done"
                /\ log' = lg1
                /\ UNCHANGED <<sField, A, B, iel>>
           ELSE IF evalFails(inp.fault, iel)
           THEN \* evalSolution fails: what it leaves in sField is its own affair
                /\ sField' \in {sField, <<>>}
                /\ ret' = FALSE
                /\ pc' = "done"
                /\ log' = [lg1 EXCEPT !.evalSolution = @ + 1]
                /\ UNCHANGED <<A, B, iel>>
           ELSE \E sF \in {evalSolution(lrspline, inp.field, inp.ncomp,
                                        unstrGpar(lrspline, c0.ng1, c0.ng2, iel))} :
                \E AB \in {integrate(<<A, B>>, c0 @@ [dA |-> dA, sF |-> sF], iel,
                                     gaussPar(lrspline, c0.ng1, c0.ng2, iel), 1, 1, 1)} :
                    /\ sField' = sF
                    /\ A' = AB[1]
                    /\ B' = AB[2]
                    /\ iel' = iel + 1
                    /\ log' = [lg1 EXCEPT !.evalSolution = @ + 1]
                    /\ UNCHANGED <<ret, pc>>
    /\ UNCHANGED <<op, lrspline, inp, grid, prm, ipG, sValues, ans>>

\* lines 208-217: the solve and the store of the control point values
L2Solve ==
    /\ op = "globalL2projection"
    /\ pc = "loop"
    /\ iel > nElements(lrspline)
    /\ \E s \in {SparseSolve(A, B, getNoNodes(lrspline), inp.ncomp)} :
           /\ B' = s[2]
           /\ log' = [log EXCEPT !.solve = @ + 1]
           /\ pc' = "done"
           /\ sField' = sFieldAfterSolve(s, sField, inp.ncomp, getNoNodes(lrspline))
           /\ ret' = s[1]
    /\ UNCHANGED <<op, lrspline, inp, grid, prm, A, iel, ipG, sValues, ans>>

Fields == {[kind |-> "basis", a |-> a] : a \in 0..1} \cup {[kind |-> "other", a |-> 0]}

NoFault == [kind |-> "none", at |-> 0, pt |-> 0]

Faults ==
    {NoFault}
    \cup {[kind |-> k, at |-> e, pt |-> 0] : k \in {"coord", "area", "eval"}, e \in 1..2}
    \cup {[kind |-> "zeroJ", at |-> e, pt |-> q] : e \in 1..2, q \in 1..2}

InitL2 ==
    /\ op = "globalL2projection"
    /\ pc = "call"
    /\ lrspline \in {NULL, Q11, Q21, P21}
    /\ \E cont \in BOOLEAN, g \in 0..2, nc \in 1..MaxComp, f \in Fields,
          flt \in Faults, s0 \in {<<>>, <<<<R(7)>>>>} :
           /\ inp = [continuous |-> cont, nGauss |-> g, ncomp |-> nc, field |-> f,
                     fault |-> flt, sField0 |-> s0]
           /\ sField = s0
    /\ grid = <<>>
    /\ prm = <<>>
    /\ ret = "none"
    /\ A = <<>>
    /\ B = <<>>
    /\ iel = 0
    /\ log = NoCalls
    /\ ipG = 0
    /\ sValues = <<>>
    /\ ans = NoMesh

NextL2 == L2Begin \/ L2Element \/ L2Solve

SpecL2 == InitL2 /\ [][NextL2]_vars

\* ------------------------------------------- claims on globalL2projection

InL2 == op = "globalL2projection" /\ lrspline # NULL
nnodL2 == getNoNodes(lrspline)
ng1L2 == ng(lrspline, inp.continuous, inp.nGauss, 0)
ng2L2 == ng(lrspline, inp.continuous, inp.nGauss, 1)

\* the quadrature lookup of the call finds its tables
TablesFound ==
    /\ getCoord(ng1L2) # NoTable
    /\ getCoord(ng2L2) # NoTable
    /\ inp.continuous => getWeight(inp.nGauss) # NoTable

\* the matrix M is nonsingular
NonSingular(M) == DirectSolve(M, [i \in 1..Len(M) |-> <<RZero>>])[1]

\* the coefficients of the field, as a (component, basis function) matrix
CoefMatrix == [r \in 1..inp.ncomp |-> [k \in 1..nnodL2 |-> Coef(inp.field, r, k)]]

\* row a of A times the coefficients of component r
ATimesCoef(a, r) ==
    RSum([b \in 1..nnodL2 |-> RMul(A[a][b], Coef(inp.field, r, b))])

C7_L2ReportsFailure ==
    (InL2 /\ pc = "done") =>
        /\ ~TablesFound => ret = FALSE
        /\ (inp.continuous /\ \E e \in 1..nElements(lrspline) :
                RLess(getParametricArea(inp.fault, e), RZero)) => ret = FALSE
        /\ (inp.continuous /\ \E e \in 1..nElements(lrspline) :
                ~getElementCoordinates(inp.fault, e)) => ret = FALSE
        /\ (log.solve = 1 /\ ~NonSingular(A)) => ret = FALSE

\* a continuous call on the two-element mesh that returned false with a
\* negative area at its second element, the first one assembled
C7_Witness ==
    /\ InL2
    /\ pc = "done"
    /\ lrspline = Q21
    /\ inp.continuous
    /\ inp.fault = [kind |-> "area", at |-> 2, pt |-> 0]
    /\ log.evalSolution = 1
    /\ ret = FALSE

\* the samples the evaluator returns for element e
SamplesOf(e) ==
    evalSolution(lrspline, inp.field, inp.ncomp, unstrGpar(lrspline, ng1L2, ng2L2, e))

\* what sField held before the evaluator call number n
BeforeEval(n) == IF n = 1 THEN inp.sField0 ELSE SamplesOf(n - 1)

\* C8 (as stated): whenever the call returns failure, sField has the
\* dimensions and contents it had before the call.
C8_Original ==
    (op = "globalL2projection" /\ pc = "done" /\ ret = FALSE) =>
        sField = inp.sField0

\* C8 (amended): whenever the call returns failure, sField holds no solved
\* coefficient: it is as the caller supplied it when no field evaluation was
\* made, and otherwise holds what the evaluator left in it at its last call
\* (the samples of the last element evaluated, when that call succeeded).
C8_NoCoefficientsOnFailure ==
    (op = "globalL2projection" /\ pc = "done" /\ ret = FALSE) =>
        LET n == log.evalSolution
        IN  IF n = 0 THEN sField = inp.sField0
            ELSE IF inp.fault.kind = "eval" /\ inp.fault.at = n
            THEN sField \in {BeforeEval(n), <<>>}
            ELSE sField = SamplesOf(n)

\* the solve failed after both elements of the two-element mesh were
\* evaluated: sField, supplied as a 1 x 1 matrix, holds the last samples
C8_Witness ==
    /\ InL2
    /\ pc = "done"
    /\ ret = FALSE
    /\ lrspline = Q21
    /\ log.solve = 1
    /\ inp.sField0 = <<<<R(7)>>>>
    /\ sField = SamplesOf(2)

\* the weight factor of Gauss point (i, j) of element e, from the inputs
RefWeight(e, i, j) ==
    IF inp.continuous
    THEN RMul(RMul(RMul(RMul(Frac(1, 4), getParametricArea(inp.fault, e)),
                        getWeight(inp.nGauss)[i]), getWeight(inp.nGauss)[j]),
              Jacobian(inp.fault, e, (j - 1) * ng1L2 + i))
    ELSE ROne

\* the point is one the integration loop skips
RefSkipped(e, i, j) == inp.continuous /\ RefWeight(e, i, j) = RZero

\* parameters of Gauss point (i, j) of element e
RefPoint(e, i, j) ==
    <<getGaussPointParameters(lrspline, 0, ng1L2, e, getCoord(ng1L2))[i],
      getGaussPointParameters(lrspline, 1, ng2L2, e, getCoord(ng2L2))[j]>>

\* sum of F over the elements 1..n and their Gauss points that are not skipped
RefSum(n, F(_, _, _)) ==
    RSum([e \in 1..n |->
        RSum([j \in 1..ng2L2 |->
            RSum([i \in 1..ng1L2 |->
                IF RefSkipped(e, i, j) THEN RZero ELSE F(e, i, j)])])])

\* sum over the local index pairs (ii, jj) of element e with connectivity
\* a = MNPC[e][ii]+1, b = MNPC[e][jj]+1 of phi_ii*phi_jj*w at point (i, j)
RefATerm(a, b, e, i, j) ==
    LET mn == MNPC(lrspline, e)
        pt == RefPoint(e, i, j)
        phi == computeBasis(lrspline, pt[1], pt[2], e)
    IN  RSum([ii \in 1..Len(mn) |->
            RSum([jj \in 1..Len(mn) |->
                IF mn[ii] + 1 = a /\ mn[jj] + 1 = b
                THEN RMul(RMul(phi[ii], phi[jj]), RefWeight(e, i, j))
                ELSE RZero])])

\* sum over the local indices ii of element e with a = MNPC[e][ii]+1 of
\* phi_ii*f_r*w at point (i, j)
RefBTerm(a, r, e, i, j) ==
    LET mn == MNPC(lrspline, e)
        pt == RefPoint(e, i, j)
        phi == computeBasis(lrspline, pt[1], pt[2], e)
        f == FieldValue(lrspline, inp.field, r, pt[1], pt[2])
    IN  RSum([ii \in 1..Len(mn) |->
            IF mn[ii] + 1 = a
            THEN RMul(RMul(phi[ii], f), RefWeight(e, i, j))
            ELSE RZero])

\* the system assembled from the first n elements
RefA(n) ==
    [a \in 1..nnodL2 |-> [b \in 1..nnodL2 |->
        LET F(e, i, j) == RefATerm(a, b, e, i, j) IN RefSum(n, F)]]
RefB(n) ==
    [q \in 1..(nnodL2 * inp.ncomp) |->
        LET a == ((q - 1) % nnodL2) + 1
            r == ((q - 1) \div nnodL2) + 1
            F(e, i, j) == RefBTerm(a, r, e, i, j)
        IN  RefSum(n, F)]

\* the call has a Gauss point with a zero Jacobian
HasZeroJacobian ==
    /\ InL2
    /\ inp.continuous
    /\ TablesFound
    /\ inp.fault.kind = "zeroJ"
    /\ inp.fault.at <= nElements(lrspline)
    /\ inp.fault.pt <= ng1L2 * ng2L2

\* C9: in continuous mode a Gauss point whose factor dJw is exactly zero adds
\* nothing to A or B and aborts nothing: the other points of its element and
\* all later elements are assembled, every element is evaluated and the solve
\* is reached (so the call can still succeed).
C9_ZeroJacobianSkipped ==
    HasZeroJacobian =>
        /\ pc = "loop" => (A = RefA(iel - 1) /\ B = RefB(iel - 1))
        /\ pc = "done" =>
              /\ log.evalSolution = nElements(lrspline)
              /\ log.solve = 1
              /\ A = RefA(nElements(lrspline))

\* a call that succeeded although the first Gauss point of the first element
\* of the two-element mesh was skipped
C9_Witness ==
    /\ HasZeroJacobian
    /\ pc = "done"
    /\ lrspline = Q21
    /\ inp.nGauss = 2
    /\ inp.fault = [kind |-> "zeroJ", at |-> 1, pt |-> 1]
    /\ ret = TRUE

\* C10: on success with a present mesh sField has exactly ncomp rows and nnod
\* columns and sField(j,i) is entry i+(j-1)*nnod of the solution vector, the
\* solution of the assembled system for component j.
C10_L2StoresSolution ==
    (InL2 /\ pc = "done" /\ ret = TRUE) =>
        /\ Rows(sField) = inp.ncomp
        /\ \A j \in 1..inp.ncomp : Len(sField[j]) = nnodL2
        /\ \A j \in 1..inp.ncomp, i \in 1..nnodL2 :
              sField[j][i] = B[i + (j - 1) * nnodL2]
        /\ \A j \in 1..inp.ncomp, a \in 1..nnodL2 :
              RSum([b \in 1..nnodL2 |-> RMul(A[a][b], sField[j][b])])
                  = RefB(nElements(lrspline))[a + (j - 1) * nnodL2]

\* a successful two-component projection of a field outside the basis on the
\* single bilinear element, whose four samples per component are replaced by
\* the four coefficients
C10_Witness ==
    /\ InL2
    /\ pc = "done"
    /\ ret = TRUE
    /\ lrspline = Q11
    /\ inp.ncomp = 2
    /\ inp.field.kind = "other"
    /\ sField # SamplesOf(1)
    /\ Cols(sField) = 4

\* --------------------------------------------------- regularInterpolation

\* the rational check left out
rationalMutant(m) == FALSE

\* lrspline->rational()
rational(m) == m.rat

\* Matrix B(points,true): the transposed copy of points
transposed(M) == [i \in 1..Cols(M) |-> [c \in 1..Rows(M) |-> M[c][i]]]

\* the matrix filled with the sample point taken for the column
interpolationMatrixMutant(m, upar, vpar) ==
    [i \in 1..nBasisFunctions(m) |->
        [j \in 1..nBasisFunctions(m) |-> computeBasisAll(m, upar[j], vpar[j])[i]]]

\* for (i < nBasis) { computeBasis(upar[i],vpar[i],splineValues);
\*   for (j < nBasis) A(i+1,j+1) = splineValues.basisValues[j]; }
interpolationMatrix(m, upar, vpar) ==
    [i \in 1..nBasisFunctions(m) |->
        [j \in 1..nBasisFunctions(m) |-> computeBasisAll(m, upar[i], vpar[i])[j]]]

\* the copy given as many control dimensions as B has rows
copyWithControlPointsMutant(m, Bm) ==
    [mesh |-> m, dim |-> Rows(Bm),
     cp |-> [i \in 1..nBasisFunctions(m) |-> [j \in 1..Cols(Bm) |-> Bm[i][j]]]]

\* ans = lrspline->copy(); ans->rebuildDimension(B.cols());
\* for (j < B.cols()) for (b : basis functions) b->cp()[j] = B(++i,j+1);
copyWithControlPoints(m, Bm) ==
    [mesh |-> m, dim |-> Cols(Bm),
     cp |-> [i \in 1..nBasisFunctions(m) |-> [j \in 1..Cols(Bm) |-> Bm[i][j]]]]

\* if (upar.size() != nBasis || vpar.size() != nBasis || points.cols() != nBasis)
sizeMismatch(m, upar, vpar, points) ==
    \/ Len(upar) # nBasisFunctions(m)
    \/ Len(vpar) # nBasisFunctions(m)
    \/ Cols(points) # nBasisFunctions(m)

InRI == op \in {"regularInterpolation", "scRecovery", "projectSolution"}

\* lines 398-430: the checks and the interpolation matrix; the arguments
\* upar, vpar are prm[1], prm[2] and points is sValues
RIBegin ==
    /\ InRI
    /\ pc = "ri_call"
    /\ IF rational(lrspline) \/ sizeMismatch(lrspline, prm[1], prm[2], sValues)
       THEN /\ ans' = NoMesh
            /\ pc' = "done"
            /\ UNCHANGED <<A, B>>
       ELSE /\ A' = interpolationMatrix(lrspline, prm[1], prm[2])
            /\ B' = transposed(sValues)
            /\ pc' = "ri_solve"
            /\ UNCHANGED ans
    /\ log' = [log EXCEPT !.interpolate = @ + 1]
    /\ UNCHANGED <<op, lrspline, inp, grid, prm, ret, sField, iel, ipG, sValues>>

\* lines 432-434: the dense solve, one right-hand side per component
RISolve ==
    /\ InRI
    /\ pc = "ri_solve"
    /\ \E s \in {DirectSolve(A, B)} :
           /\ B' = s[2]
           /\ log' = [log EXCEPT !.solve = @ + 1]
           /\ IF s[1]
              THEN /\ pc' = "ri_copy"
                   /\ UNCHANGED ans
              ELSE /\ pc' = "done"
                   /\ ans' = NoMesh
    /\ UNCHANGED <<op, lrspline, inp, grid, prm, ret, sField, A, iel, ipG, sValues>>

\* lines 436-447: the copy of the mesh and its new control point values
RICopy ==
    /\ InRI
    /\ pc = "ri_copy"
    /\ ans' = copyWithControlPoints(lrspline, B)
    /\ log' = [log EXCEPT !.copy = @ + 1]
    /\ pc' = "done"
    /\ UNCHANGED <<op, lrspline, inp, grid, prm, ret, sField, A, B, iel, ipG, sValues>>

\* the sample points of a call: the Greville points, those points with the
\* last one missing, or the points u = Gu/4 + 1/4, v = Gv/4 + 1/4
SamplePoints(m, kind, dir) ==
    LET n == IF kind = "short" THEN nBasisFunctions(m) - 1 ELSE nBasisFunctions(m)
    IN  [k \in 1..n |->
            LET g == getGrevilleParameter(m, k)[dir + 1]
            IN  IF kind = "inner" THEN RAdd(RMul(Frac(1, 4), g), Frac(1, 4)) ELSE g]

\* the values to interpolate: s*i + c for component c at sample point i
SampleValues(ncomp, ncols, s) ==
    [c \in 1..ncomp |-> [i \in 1..ncols |-> R(s * i + c)]]

InitRI ==
    /\ op = "regularInterpolation"
    /\ pc = "ri_call"
    /\ lrspline \in {Q11, Q21, Q22, P21, [Q11 EXCEPT !.rat = TRUE]}
    /\ \E kind \in {"greville", "inner", "short"}, nc \in 1..MaxComp,
          s \in 0..MaxVal, less \in 0..1 :
           /\ inp = [points |-> kind, ncomp |-> nc, s |-> s, less |-> less]
           /\ prm = <<SamplePoints(lrspline, kind, 0), SamplePoints(lrspline, kind, 1)>>
           /\ sValues = SampleValues(nc, nBasisFunctions(lrspline) - less, s)
    /\ grid = <<>>
    /\ ret = "none"
    /\ sField = <<>>
    /\ A = <<>>
    /\ B = <<>>
    /\ iel = 0
    /\ log = NoCalls
    /\ ipG = 0
    /\ ans = NoMesh

NextRI == RIBegin \/ RISolve \/ RICopy

SpecRI == InitRI /\ [][NextRI]_vars

\* C6: round trip of regularInterpolation: on success the control values x
\* of the returned mesh satisfy sum_j phi_j(upar[i],vpar[i]) * x[j,c] =
\* points(c,i) for every sample point i and component c.
C6_InterpolationRoundTrip ==
    (op = "regularInterpolation" /\ pc = "done" /\ ans # NoMesh) =>
        \A i \in 1..nBasisFunctions(lrspline), c \in 1..inp.ncomp :
            RSum([j \in 1..nBasisFunctions(lrspline) |->
                     RMul(BasisValue(lrspline, j, prm[1][i], prm[2][i]), ans.cp[j][c])])
                = sValues[c][i]

\* a successful interpolation at points other than the Greville points, whose
\* control values differ from the values interpolated
C6_Witness ==
    /\ op = "regularInterpolation"
    /\ pc = "done"
    /\ ans # NoMesh
    /\ lrspline = Q11
    /\ inp.points = "inner"
    /\ inp.s = 1
    /\ \E j \in 1..4 : ans.cp[j][1] # sValues[1][j]

\* ----------------------------------------------- evalMonomials, scRecovery

RECURSIVE evalMonomialsLoopMutant(_, _, _, _, _, _, _, _)
\* the power loops running one pass too many (k <= i, k <= j)
evalMonomialsLoopMutant(P, p1, p2, x, y, j, i, idx) ==
    IF j >= p2 THEN P
    ELSE IF i >= p1 THEN evalMonomialsLoopMutant(P, p1, p2, x, y, j + 1, 0, idx)
    ELSE evalMonomialsLoopMutant(
            [P EXCEPT ![idx] = RMul(RMul(@, RPow(x, i + 1)), RPow(y, j + 1))],
            p1, p2, x, y, j, i + 1, idx + 1)

RECURSIVE evalMonomialsLoop(_, _, _, _, _, _, _, _)
\* for (j < p2) for (i < p1; i++, ip++)
\*   { for (k < i) P(ip) *= x; for (k < j) P(ip) *= y; }
evalMonomialsLoop(P, p1, p2, x, y, j, i, idx) ==
    IF j >= p2 THEN P
    ELSE IF i >= p1 THEN evalMonomialsLoop(P, p1, p2, x, y, j + 1, 0, idx)
    ELSE evalMonomialsLoop(
            [P EXCEPT ![idx] = RMul(RMul(@, RPow(x, i)), RPow(y, j))],
            p1, p2, x, y, j, i + 1, idx + 1)

\* evalMonomials(p1,p2,x,y,P): P.resize(p1*p2); P.fill(1.0); the loops
evalMonomials(p1, p2, x, y) ==
    evalMonomialsLoop([k \in 1..(p1 * p2) |-> ROne], p1, p2, x, y, 0, 0, 1)

RECURSIVE addPPtRow(_, _, _, _)
\* for (l <= nPol) A(k,l) += P(k)*P(l); on row k of A
addPPtRow(row, P, k, l) ==
    IF l > Len(P) THEN row
    ELSE addPPtRow([row EXCEPT ![l] = RAdd(@, RMul(P[k], P[l]))], P, k, l + 1)

RECURSIVE addPPt(_, _, _)
\* for (k <= nPol) for (l <= nPol) A(k,l) += P(k)*P(l);
addPPt(Am, P, k) ==
    IF k > Len(P) THEN Am
    ELSE LET Ak == [Am EXCEPT ![k] = addPPtRow(@, P, k, 1)]
         IN  IF Evaluated(Ak) THEN addPPt(Ak, P, k + 1) ELSE Am

RECURSIVE addPSigmaRow(_, _, _, _, _, _)
\* for (l <= nCmp) B(k,l) += P(k)*sField(l,ig+1); on row k of B
\* (ig is the 1-based column here)
addPSigmaRow(row, P, sF, ig, k, l) ==
    IF l > Len(sF) THEN row
    ELSE addPSigmaRow([row EXCEPT ![l] = RAdd(@, RMul(P[k], sF[l][ig]))],
                      P, sF, ig, k, l + 1)

RECURSIVE addPSigma(_, _, _, _, _)
\* for (k <= nPol) for (l <= nCmp) B(k,l) += P(k)*sField(l,ig+1);
addPSigma(Bm, P, sF, ig, k) ==
    IF k > Len(P) THEN Bm
    ELSE LET Bk == [Bm EXCEPT ![k] = addPSigmaRow(@, P, sF, ig, k, 1)]
         IN  IF Evaluated(Bk) THEN addPSigma(Bk, P, sF, ig, k + 1) ELSE Bm

RECURSIVE scGaussLoopMutant(_, _, _, _, _, _, _, _)
\* the loop reading the sample of the first Gauss point at every point
scGaussLoopMutant(AB, c, G, gaussPt, sF, j, i, ig) ==
    IF j > c.ng2 THEN AB
    ELSE IF i > c.ng1 THEN scGaussLoopMutant(AB, c, G, gaussPt, sF, j + 1, 1, ig)
    ELSE LET X == point(c.m, gaussPt[1][i], gaussPt[2][j])
             P == evalMonomials(c.n1, c.n2, RSub(X[1], G[1]), RSub(X[2], G[2]))
             ABg == <<addPPt(AB[1], P, 1), addPSigma(AB[2], P, sF, 1, 1)>>
         IN  IF Evaluated(X) /\ Evaluated(P) /\ Evaluated(ABg)
             THEN scGaussLoopMutant(ABg, c, G, gaussPt, sF, j, i + 1, ig + 1)
             ELSE AB

RECURSIVE scGaussLoop(_, _, _, _, _, _, _, _)
\* lines 336-360: the loop over the Gauss points of one element;
\* AB = <<A, B>>, c the constants of the call, G the Greville point,
\* gaussPt the per-direction parameters, sF the samples; i, j, ig 1-based
scGaussLoop(AB, c, G, gaussPt, sF, j, i, ig) ==
    IF j > c.ng2 THEN AB
    ELSE IF i > c.ng1 THEN scGaussLoop(AB, c, G, gaussPt, sF, j + 1, 1, ig)
    ELSE LET X == point(c.m, gaussPt[1][i], gaussPt[2][j])
             P == evalMonomials(c.n1, c.n2, RSub(X[1], G[1]), RSub(X[2], G[2]))
             ABg == <<addPPt(AB[1], P, 1), addPSigma(AB[2], P, sF, ig, 1)>>
         IN  IF Evaluated(X) /\ Evaluated(P) /\ Evaluated(ABg)
             THEN scGaussLoop(ABg, c, G, gaussPt, sF, j, i + 1, ig + 1)
             ELSE AB

\* the support taken as the elements of the basis function itself
patchElementsMutant(m, k) == SortedSeq(supportedElements(m, k))

\* if (true) supportElements = b->getExtendedSupport();
patchElements(m, k) == getExtendedSupport(m, k)

\* the values written to the first column whatever ip is
recordValuesMutant(sV, Bm, col) ==
    [l \in 1..Len(sV) |-> [q \in 1..Len(sV[l]) |-> IF q = 1 THEN Bm[1][l] ELSE sV[l][q]]]

\* for (l <= nCmp) sValues(l,ip) = B(1,l) with ip already advanced
recordValues(sV, Bm, col) ==
    [l \in 1..Len(sV) |-> [q \in 1..Len(sV[l]) |-> IF q = col THEN Bm[1][l] ELSE sV[l][q]]]

\* a failed local solve taken for a success
solveFailedMutant(s) == FALSE

\* if (!A.solve(B)) return nullptr;
solveFailed(s) == ~s[1]

\* the matrices of the previous pass taken over by the next one
localSystemMutant(c) ==
    IF A = <<>> THEN <<ZeroMatrix(c.nPol, c.nPol), ZeroMatrix(c.nPol, c.nCmp)>>
    ELSE <<A, B>>

\* DenseMatrix A(nPol,nPol); Matrix B(nPol,nCmp); declared in the loop body
localSystem(c) == <<ZeroMatrix(c.nPol, c.nPol), ZeroMatrix(c.nPol, c.nCmp)>>

\* the constants of a running call of scRecovery
SCc ==
    LET m == inp.m
        p1 == order(lrspline, 0)
        p2 == order(lrspline, 1)
    IN  [m |-> lrspline, f |-> inp.field, flt |-> inp.fault,
         ng1 |-> p1 - m, ng2 |-> p2 - m,
         n1 |-> p1 - m + 1, n2 |-> p2 - m + 1,
         nCmp |-> inp.ncomp, nPol |-> (p1 - m + 1) * (p2 - m + 1)]

\* lines 244-267 for a present mesh: the quadrature lookup, the Greville
\* points, the set-up
SCBegin ==
    /\ op = "scRecovery"
    /\ pc = "call"
    /\ lrspline # NULL
    /\ LET c == SCc
           g0 == getGrevilleParameters(lrspline, <<>>, 0)
           g1 == getGrevilleParameters(lrspline, <<>>, 1)
       IN  /\ IF getCoord(c.ng1) = NoTable \/ getCoord(c.ng2) = NoTable
                 \/ ~g0[1] \/ ~g1[1]
              THEN /\ pc' = "done"
                   /\ ans' = NoMesh
                   /\ log' = [log EXCEPT !.order = 2, !.getCoord = 2]
                   /\ UNCHANGED <<prm, sValues, ipG>>
              ELSE /\ prm' = <<g0[2], g1[2]>>
                   /\ sValues' = ZeroMatrix(c.nCmp, Len(g0[2]))
                   /\ ipG' = 0
                   /\ pc' = "sc_loop"
                   /\ log' = [log EXCEPT !.order = 2, !.getCoord = 2,
                                         !.written = [q \in 1..Len(g0[2]) |-> 0]]
                   /\ UNCHANGED ans
    /\ UNCHANGED <<op, lrspline, inp, grid, ret, sField, A, B, iel>>

\* lines 244-258 for an absent mesh: lrspline->order(0) (line 245) is a call
\* through a null pointer, undefined behaviour: the program ends abnormally,
\* or both calls hand back some value and the call returns nullptr at line
\* 253 (no table for the orders obtained) or at line 257 (the null check of
\* getGrevilleParameters)
SCBeginNull ==
    /\ op = "scRecovery"
    /\ pc = "call"
    /\ lrspline = NULL
    /\ \/ /\ pc' = "crashed"
          /\ log' = [log EXCEPT !.order = 1]
       \/ /\ pc' = "done"
          /\ log' = [log EXCEPT !.order = 2, !.getCoord = 2]
    /\ ans' = NoMesh
    /\ UNCHANGED <<op, lrspline, inp, grid, prm, ret, sField, A, B, iel, ipG, sValues>>

\* the Greville point of the pass under way: lrspline->point(G,gpar[0][ip],
\* gpar[1][ip]) with the shared counter ip (line 306)
passPoint == point(lrspline, prm[1][ipG + 1], prm[2][ipG + 1])

\* the elements of the pass under way, for the basis function the
\* enumeration hands out at this pass (lines 274-289)
supportElements == patchElements(lrspline, inp.visit[ipG + 1])

\* lines 274-310: a pass of the loop over the basis functions begins: the
\* patch, the Greville point, the local matrices
SCPatch ==
    /\ op = "scRecovery"
    /\ pc = "sc_loop"
    /\ ipG < nBasisFunctions(lrspline)
    /\ \E AB \in {localSystem(SCc)} :
           /\ A' = AB[1]
           /\ B' = AB[2]
    /\ iel' = 0
    /\ pc' = "sc_elem"
    /\ log' = [log EXCEPT !.passes = @ + 1, !.sampled = <<>>]
    /\ UNCHANGED <<op, lrspline, inp, grid, prm, ret, sField, ipG, sValues, ans>>

\* lines 314-361: one element of the patch: its Gauss points, the samples
\* of the solution there, the contributions to A and B
SCElement ==
    /\ op = "scRecovery"
    /\ pc = "sc_elem"
    /\ \E els \in {supportElements} :
           /\ iel < Len(els)
           /\ \E e \in {els[iel + 1]} :
                  IF evalFails(inp.fault, e)
                  THEN /\ pc' = "done"
                       /\ ans' = NoMesh
                       /\ log' = [log EXCEPT !.evalSolution = @ + 1]
                       /\ UNCHANGED <<A, B, iel, sField>>
                  ELSE \E c \in {SCc} :
                       \E G \in {passPoint} :
                       \E gaussPt \in {gaussPar(lrspline, c.ng1, c.ng2, e)} :
                       \E sF \in {evalSolution(lrspline, inp.field, c.nCmp,
                                               unstrGpar(lrspline, c.ng1, c.ng2, e))} :
                       \E AB \in {scGaussLoop(<<A, B>>, c, G, gaussPt, sF, 1, 1, 1)} :
                           /\ A' = AB[1]
                           /\ B' = AB[2]
                           /\ sField' = sF
                           /\ iel' = iel + 1
                           /\ log' = [log EXCEPT !.evalSolution = @ + 1,
                                                 !.sampled = Append(@, e)]
                           /\ UNCHANGED <<pc, ans>>
    /\ UNCHANGED <<op, lrspline, inp, grid, prm, ret, ipG, sValues>>

\* lines 371-376: the local solve, the counter, the values recorded; A and B
\* keep the local system as assembled, before the solve
SCSolve ==
    /\ op = "scRecovery"
    /\ pc = "sc_elem"
    /\ iel >= Len(supportElements)
    /\ \E s \in {DirectSolve(A, B)} :
           IF solveFailed(s)
           THEN /\ pc' = "done"
                /\ ans' = NoMesh
                /\ log' = [log EXCEPT !.solve = @ + 1]
                /\ UNCHANGED <<ipG, sValues>>
           ELSE /\ ipG' = ipG + 1
                /\ sValues' = recordValues(sValues, s[2], ipG + 1)
                /\ pc' = "sc_loop"
                /\ log' = [log EXCEPT !.solve = @ + 1, !.written[ipG + 1] = @ + 1]
                /\ UNCHANGED ans
    /\ UNCHANGED <<op, lrspline, inp, grid, prm, ret, sField, A, B, iel>>

\* line 390: return this->regularInterpolation(gpar[0],gpar[1],sValues);
SCInterpolate ==
    /\ op = "scRecovery"
    /\ pc = "sc_loop"
    /\ ipG >= nBasisFunctions(lrspline)
    /\ pc' = "ri_call"
    /\ UNCHANGED <<op, lrspline, inp, grid, prm, ret, sField, A, B, iel, log, ipG,
                   sValues, ans>>

\* the fields scRecovery samples: polynomials in the physical coordinates of
\* degree 0..2 per direction, and the field u*u + r*v
PolyFields == {[kind |-> "poly", a |-> d] : d \in 0..2}
SCFields == PolyFields \cup {f \in Fields : f.kind = "other"}
\* the numbers of components scRecovery is run with (one, several)
SCComps == 1..2

\* for (LR::Basisfunction *b : lrspline->getAllBasisfunctions()): the order
\* in which the loop is handed the basis functions
EnumerationOrder(m) == [k \in 1..nBasisFunctions(m) |-> k]

InitSC ==
    /\ op = "scRecovery"
    /\ pc = "call"
    /\ lrspline \in {NULL, Q11, Q21, Q22, Q32}
    /\ \E m \in 0..2, nc \in SCComps, f \in SCFields,
          flt \in {NoFault} \cup {[kind |-> "eval", at |-> e, pt |-> 0] : e \in 1..3} :
           inp = [m |-> m, ncomp |-> nc, field |-> f, fault |-> flt,
                  visit |-> EnumerationOrder(lrspline)]
    /\ grid = <<>>
    /\ prm = <<>>
    /\ ret = "none"
    /\ sField = <<>>
    /\ A = <<>>
    /\ B = <<>>
    /\ iel = 0
    /\ log = NoCalls
    /\ ipG = 0
    /\ sValues = <<>>
    /\ ans = NoMesh

NextSC ==
    SCBegin \/ SCBeginNull \/ SCPatch \/ SCElement \/ SCSolve \/ SCInterpolate
    \/ RIBegin \/ RISolve \/ RICopy

SpecSC == InitSC /\ [][NextSC]_vars

\* the loop handed the basis functions in another order than the
\* enumeration's: backwards, or with the first and last exchanged
VisitOrders(m) ==
    LET n == nBasisFunctions(m)
    IN  {EnumerationOrder(m),
         [k \in 1..n |-> n + 1 - k],
         [k \in 1..n |-> IF k = 1 THEN n ELSE IF k = n THEN 1 ELSE k]}

\* scRecovery with the passes of its loop run in an order of VisitOrders,
\* each pass being the loop body of lines 274-385 as written
InitSCAny ==
    /\ op = "scRecovery"
    /\ pc = "call"
    /\ lrspline = Q32
    /\ \E nc \in SCComps, f \in SCFields, v \in VisitOrders(lrspline) :
           inp = [m |-> 1, ncomp |-> nc, field |-> f, fault |-> NoFault, visit |-> v]
    /\ grid = <<>>
    /\ prm = <<>>
    /\ ret = "none"
    /\ sField = <<>>
    /\ A = <<>>
    /\ B = <<>>
    /\ iel = 0
    /\ log = NoCalls
    /\ ipG = 0
    /\ sValues = <<>>
    /\ ans = NoMesh

NextSCAny ==
    SCBegin \/ SCPatch \/ SCElement \/ SCSolve \/ SCInterpolate
    \/ RIBegin \/ RISolve \/ RICopy

SpecSCAny == InitSCAny /\ [][NextSCAny]_vars

\* --------------------------------------------------- claims on scRecovery

RECURSIVE Binom(_, _)
Binom(n, k) == IF k = 0 \/ k = n THEN 1 ELSE Binom(n - 1, k - 1) + Binom(n - 1, k)

\* coefficient of (x-G[1])^a*(y-G[2])^b in component r of the polynomial
\* field f expanded about the point G
ShiftedCoef(f, r, G, a, b) ==
    RSum([i \in 1..(f.a + 1) |->
        RSum([j \in 1..(f.a + 1) |->
            IF i - 1 < a \/ j - 1 < b THEN RZero
            ELSE RMul(RMul(PolyCoef(f, r, i - 1, j - 1),
                           R(Binom(i - 1, a) * Binom(j - 1, b))),
                      RMul(RPow(G[1], i - 1 - a), RPow(G[2], j - 1 - b)))])])

\* the physical Greville point of basis function k
GrevillePoint(k) == point(lrspline, prm[1][k], prm[2][k])

\* A and B hold the local system of a basis function: the one recorded
\* last, the one being assembled, or the one at which the recovery gave up
LocalSystemHeld ==
    /\ op = "scRecovery"
    /\ A # <<>>
    /\ \/ pc \in {"sc_loop", "sc_elem"}
       \/ (pc = "done" /\ ipG < nBasisFunctions(lrspline))

\* the basis function whose local system A and B hold
PatchBasis == IF pc = "sc_loop" THEN ipG ELSE ipG + 1

\* the sampled field is a polynomial the recovery polynomial space contains
PolynomialInRange ==
    /\ inp.field.kind = "poly"
    /\ inp.field.a <= order(lrspline, 0) - inp.m
    /\ inp.field.a <= order(lrspline, 1) - inp.m

\* the coefficients about G of the components of the sampled polynomial,
\* in the order of the monomials: cf[l][a + n1*b + 1]
ShiftedCoefs(G) ==
    Computed([l \in 1..SCc.nCmp |->
        Computed([ll \in 1..SCc.nPol |->
            ShiftedCoef(inp.field, l, G, (ll - 1) % SCc.n1, (ll - 1) \div SCc.n1)],
            SCc.nPol)], SCc.nCmp)

\* C5: patch test of scRecovery: for a field that is a polynomial in the
\* physical coordinates of degree at most order - derivativeOrder in each
\* direction, the local normal equations of every basis function are
\* satisfied by the polynomial's coefficients about the Greville point, and
\* every recorded value (row 1 of the local solution) is the polynomial's
\* value at the Greville point of its basis function.
C5_PatchTest ==
    (op = "scRecovery" /\ PolynomialInRange) =>
        /\ LocalSystemHeld =>
              \E cf \in {ShiftedCoefs(G) : G \in {GrevillePoint(PatchBasis)}} :
                  \A kk \in 1..SCc.nPol, l \in 1..SCc.nCmp :
                      B[kk][l] = RSum([ll \in 1..SCc.nPol |-> RMul(A[kk][ll], cf[l][ll])])
        /\ \A q \in 1..ipG, l \in 1..SCc.nCmp :
              sValues[l][q] =
                 PolyValue(inp.field, l, GrevillePoint(q)[1], GrevillePoint(q)[2])

\* the value of a bilinear field recorded for the interior basis function of
\* the 2 x 2 mesh from a nonsingular local system of first derivatives
C5_Witness ==
    /\ op = "scRecovery"
    /\ pc = "sc_loop"
    /\ lrspline = Q22
    /\ inp.m = 1
    /\ inp.field = [kind |-> "poly", a |-> 1]
    /\ ipG = 5
    /\ GrevillePoint(5) = <<R(2), R(1)>>
    /\ A[2][2] # RZero
    /\ sValues[1][5] = R(16)

\* the basis function the latest pass of the loop was handed
PassBasis == inp.visit[log.passes]

\* the evaluator fails at an element of the sequence els
FailsWithin(els) == \E q \in 1..Len(els) : evalFails(inp.fault, els[q])

\* the Gauss points the direct support of basis function k would supply
DirectPoints(k) == Cardinality(supportedElements(lrspline, k)) * SCc.ng1 * SCc.ng2

\* C11: scRecovery always fits over the extended support: after every pass
\* of the loop the elements whose Gauss points were sampled are the
\* extended-support list of the basis function of the pass (the part of it
\* before the element at which the evaluator failed, if it did), whether or
\* not the direct support would supply as many points as the polynomial has
\* terms.
C11_ExtendedSupportAlways ==
    (op = "scRecovery" /\ log.passes >= 1) =>
        LET ext == getExtendedSupport(lrspline, PassBasis)
        IN  /\ Len(log.sampled) <= Len(ext)
            /\ log.sampled = SubSeq(ext, 1, Len(log.sampled))
            /\ (pc # "sc_elem" /\ ~FailsWithin(ext)) => log.sampled = ext
            /\ (pc # "sc_elem" /\ FailsWithin(ext)) =>
                   evalFails(inp.fault, ext[Len(log.sampled) + 1])

\* the corner function of the 2 x 2 mesh, whose own element supplies one
\* Gauss point for four polynomial terms, recorded from the four elements of
\* its extended support
C11_Witness ==
    /\ op = "scRecovery"
    /\ pc = "sc_loop"
    /\ lrspline = Q22
    /\ inp.m = 1
    /\ log.passes = 1
    /\ ipG = 1
    /\ supportedElements(lrspline, 1) = {1}
    /\ DirectPoints(1) < SCc.nPol
    /\ log.sampled = <<1, 2, 3, 4>>
    /\ NonSingular(A)

\* a quadrature table is missing for the orders of the call
SCTableMissing == getCoord(SCc.ng1) = NoTable \/ getCoord(SCc.ng2) = NoTable

\* nothing was produced: no mesh object, no interpolation
NothingProduced == ans = NoMesh /\ log.interpolate = 0 /\ log.copy = 0

\* C12: scRecovery is fail-fast with no partial result: a missing quadrature
\* table or a failed Greville computation ends the call before any pass of
\* the loop; a failed field evaluation or an unsolvable local system ends
\* it in the pass where it happens, with nothing recorded for that basis
\* function and no later pass; in each case the result is absent and
\* regularInterpolation is never invoked, so that an invocation of
\* regularInterpolation follows only passes that all succeeded.
C12_FailFast ==
    op = "scRecovery" =>
        /\ (pc # "call" /\ (lrspline = NULL \/ SCTableMissing) /\ pc # "crashed") =>
              pc = "done" /\ NothingProduced /\ log.passes = 0
        /\ (log.passes >= 1 /\ log.interpolate = 0 /\ pc # "sc_elem"
              /\ (FailsWithin(getExtendedSupport(lrspline, PassBasis)) \/ ~NonSingular(A))) =>
              /\ pc = "done"
              /\ NothingProduced
              /\ ipG = log.passes - 1
              /\ \A q \in 1..Len(log.written) : log.written[q] = IF q <= ipG THEN 1 ELSE 0
        /\ log.interpolate >= 1 =>
              /\ ipG = nBasisFunctions(lrspline)
              /\ log.passes = ipG
              /\ log.solve >= ipG
        /\ (pc = "done" /\ log.interpolate = 0) => NothingProduced

\* the evaluator failing at the third element of the 3 x 2 mesh: the first
\* basis function is recorded, the second pass gives up, nothing follows
C12_Witness ==
    /\ op = "scRecovery"
    /\ pc = "done"
    /\ lrspline = Q32
    /\ inp.fault = [kind |-> "eval", at |-> 3, pt |-> 0]
    /\ log.passes = 2
    /\ ipG = 1
    /\ log.written[1] = 1
    /\ log.sampled = <<1, 2>>
    /\ ans = NoMesh
    /\ log.interpolate = 0

\* ------------------------------------------------------- projectSolution

\* both arrays computed for direction 0
projectionPointsMutant(m) ==
    <<getGrevilleParameters(m, <<>>, 0)[1] /\ getGrevilleParameters(m, <<>>, 0)[1],
      <<getGrevilleParameters(m, <<>>, 0)[2], getGrevilleParameters(m, <<>>, 0)[2]>>>>

\* for (dir < 2) if (!getGrevilleParameters(gpar[dir],dir)) return nullptr;
\* <<both calls succeeded, gpar>>
projectionPoints(m) ==
    <<getGrevilleParameters(m, <<>>, 0)[1] /\ getGrevilleParameters(m, <<>>, 1)[1],
      <<getGrevilleParameters(m, <<>>, 0)[2], getGrevilleParameters(m, <<>>, 1)[2]>>>>

\* lines 70-74: the Greville parameters of the sampling points
PSGreville ==
    /\ op = "projectSolution"
    /\ pc = "call"
    /\ \E g \in {projectionPoints(lrspline)} :
           IF ~g[1]
           THEN /\ pc' = "done"
                /\ ans' = NoMesh
                /\ UNCHANGED prm
           ELSE /\ prm' = g[2]
                /\ pc' = "ps_eval"
                /\ UNCHANGED ans
    /\ UNCHANGED <<op, lrspline, inp, grid, ret, sField, A, B, iel, log, ipG, sValues>>

\* lines 76-88: the field sampled at the Greville points and handed, with
\* them, to regularInterpolation
PSEvaluate ==
    /\ op = "projectSolution"
    /\ pc = "ps_eval"
    /\ log' = [log EXCEPT !.evalSolution = @ + 1]
    /\ IF inp.fault.kind = "eval"
       THEN /\ pc' = "done"
            /\ ans' = NoMesh
            /\ UNCHANGED sValues
       ELSE /\ \E sv \in {evalSolution(lrspline, inp.field, inp.ncomp, prm)} :
                   sValues' = sv
            /\ pc' = "ri_call"
            /\ UNCHANGED ans
    /\ UNCHANGED <<op, lrspline, inp, grid, prm, ret, sField, A, B, iel, ipG>>

InitPS ==
    /\ op = "projectSolution"
    /\ pc = "call"
    /\ lrspline \in {NULL, Q11, Q21, Q22, P21, [Q11 EXCEPT !.rat = TRUE]}
    /\ \E nc \in 1..MaxComp, f \in Fields \cup PolyFields,
          flt \in {NoFault, [kind |-> "eval", at |-> 1, pt |-> 0]} :
           inp = [ncomp |-> nc, field |-> f, fault |-> flt]
    /\ grid = <<>>
    /\ prm = <<>>
    /\ ret = "none"
    /\ sField = <<>>
    /\ A = <<>>
    /\ B = <<>>
    /\ iel = 0
    /\ log = NoCalls
    /\ ipG = 0
    /\ sValues = <<>>
    /\ ans = NoMesh

NextPS == PSGreville \/ PSEvaluate \/ RIBegin \/ RISolve \/ RICopy

SpecPS == InitPS /\ [][NextPS]_vars

\* ------------------------------------------ claims on regularInterpolation

\* the arrays handed to regularInterpolation do not all have nBasis entries
WrongSizes ==
    \/ Len(prm[1]) # nBasisFunctions(lrspline)
    \/ Len(prm[2]) # nBasisFunctions(lrspline)
    \/ Cols(sValues) # nBasisFunctions(lrspline)

\* the values of the basis functions (columns) at the sample points (rows)
Collocation ==
    [i \in 1..nBasisFunctions(lrspline) |->
        [j \in 1..nBasisFunctions(lrspline) |->
            BasisValue(lrspline, j, prm[1][i], prm[2][i])]]

\* one of the three reasons for which the interpolation gives up
InterpolationImpossible ==
    IF lrspline.rat \/ WrongSizes THEN TRUE ELSE ~NonSingular(Collocation)

\* C13: regularInterpolation returns an absent result when the basis is
\* rational, when upar, vpar or the column count of points differs from the
\* number of basis functions, or when the interpolation system is singular,
\* and in each of these cases no mesh object was created: the mesh is copied
\* only after a successful solve.
C13_InterpolationFails ==
    op = "regularInterpolation" =>
        /\ InterpolationImpossible => log.copy = 0 /\ ans = NoMesh /\ pc # "ri_copy"
        /\ (lrspline.rat \/ WrongSizes) =>
              pc \in {"ri_call", "done"} /\ log.solve = 0 /\ A = <<>>
        /\ log.copy >= 1 => log.solve = 1 /\ ~InterpolationImpossible

\* nine sample points inside one element of the 2 x 2 mesh: the sizes agree,
\* the system is singular, the solve was tried and no mesh was copied
C13_Witness ==
    /\ op = "regularInterpolation"
    /\ pc = "done"
    /\ lrspline = Q22
    /\ inp.points = "inner"
    /\ ~WrongSizes
    /\ ~NonSingular(Collocation)
    /\ log.solve = 1
    /\ log.copy = 0
    /\ ans = NoMesh

\* what a successful interpolation has produced
InterpolationFrame ==
    (op = "regularInterpolation" /\ pc = "done" /\ ans # NoMesh) =>
        /\ log.copy = 1
        /\ ans.mesh = lrspline
        /\ ans.dim = Rows(sValues)
        /\ Len(ans.cp) = nBasisFunctions(lrspline)
        /\ \A i \in 1..nBasisFunctions(lrspline) :
              /\ Len(ans.cp[i]) = ans.dim
              /\ \A j \in 1..ans.dim :
                    /\ ans.cp[i][j] = B[i][j]
                    /\ RSum([k \in 1..nBasisFunctions(lrspline) |->
                                RMul(Collocation[i][k], B[k][j])]) = sValues[j][i]

\* C14: on success regularInterpolation returns a mesh object made by one
\* copy of the source, with the same basis functions in the same order,
\* whose control dimensionality is the number of rows of points and whose
\* i-th basis function carries the solved coefficient (i,j) for every
\* component j; no step of the interpolation changes the source mesh.
C14_InterpolationResult ==
    /\ []InterpolationFrame
    /\ [][op = "regularInterpolation" => lrspline' = lrspline]_vars

\* two components interpolated on the two-element mesh: a copy with control
\* dimensionality 2 over six basis functions
C14_Witness ==
    /\ op = "regularInterpolation"
    /\ pc = "done"
    /\ lrspline = Q21
    /\ inp.ncomp = 2
    /\ inp.s = 1
    /\ log.copy = 1
    /\ ans.mesh = Q21
    /\ ans.dim = 2
    /\ Rows(B) = 6
    /\ ans.cp[6][2] = B[6][2]

\* ----------------------------------------------- claims on projectSolution

\* the Greville parameters of all basis functions in direction dir
GrevilleArray(dir) ==
    [k \in 1..nBasisFunctions(lrspline) |-> getGrevilleParameter(lrspline, k)[dir + 1]]

\* the field sampled at the Greville points, (component, basis function)
GrevilleSamples ==
    [r \in 1..inp.ncomp |->
        [k \in 1..nBasisFunctions(lrspline) |->
            FieldValue(lrspline, inp.field, r, GrevilleArray(0)[k], GrevilleArray(1)[k])]]

\* ans is what regularInterpolation returns for the Greville arrays and samples
InterpolatesGrevilleSamples ==
    IF lrspline.rat \/ ~NonSingular(Collocation)
    THEN ans = NoMesh
    ELSE /\ ans # NoMesh
         /\ ans.mesh = lrspline
         /\ ans.dim = inp.ncomp
         /\ \A i \in 1..nBasisFunctions(lrspline), r \in 1..inp.ncomp :
               RSum([k \in 1..nBasisFunctions(lrspline) |->
                        RMul(Collocation[i][k], ans.cp[k][r])]) = GrevilleSamples[r][i]

\* C15: projectSolution returns an absent result without evaluating the
\* field or invoking regularInterpolation when the Greville computation
\* fails, and without invoking regularInterpolation when the evaluation
\* fails; otherwise it returns the result of regularInterpolation for the
\* two Greville arrays, each of length nBasis, and the field sampled at the
\* Greville points, and the size check on the parameter arrays cannot fail.
C15_ProjectSolution ==
    op = "projectSolution" =>
        /\ (lrspline = NULL /\ pc # "call") =>
              /\ pc = "done" /\ ans = NoMesh
              /\ log.evalSolution = 0 /\ log.interpolate = 0
        /\ (lrspline # NULL /\ inp.fault.kind = "eval" /\ pc \notin {"call", "ps_eval"}) =>
              /\ pc = "done" /\ ans = NoMesh
              /\ log.evalSolution = 1 /\ log.interpolate = 0
        /\ (lrspline # NULL /\ inp.fault.kind # "eval" /\ pc = "done") =>
              log.interpolate = 1
        /\ (pc = "ri_call" \/ log.interpolate >= 1) =>
              /\ prm = <<GrevilleArray(0), GrevilleArray(1)>>
              /\ Len(prm[1]) = nBasisFunctions(lrspline)
              /\ Len(prm[2]) = nBasisFunctions(lrspline)
              /\ sValues = GrevilleSamples
              /\ log.evalSolution = 1
        /\ (pc = "done" /\ log.interpolate >= 1) => InterpolatesGrevilleSamples

\* a field of the basis projected on the two-element mesh: the control
\* values returned are the coefficients of the field
C15_Witness ==
    /\ op = "projectSolution"
    /\ pc = "done"
    /\ lrspline = Q21
    /\ inp.field = [kind |-> "basis", a |-> 1]
    /\ log.interpolate = 1
    /\ ans # NoMesh
    /\ \A k \in 1..6 : ans.cp[k][1] = Coef(inp.field, 1, k)
    /\ prm[1] # prm[2]

\* ------------------------------------- claims on the passes of scRecovery

\* the Gauss points of the elements els, one element after the other, each
\* as <<u, v>>
PatchPoints(els) ==
    LET c == SCc
        npe == c.ng1 * c.ng2
    IN  Computed([t \in 1..(Len(els) * npe) |->
            LET gp == gaussPar(lrspline, c.ng1, c.ng2, els[((t - 1) \div npe) + 1])
                p == (t - 1) % npe
            IN  <<gp[1][(p % c.ng1) + 1], gp[2][(p \div c.ng1) + 1]>>], Len(els) * npe)

\* the monomials (x-G[1])^a*(y-G[2])^b, a + n1*b = idx - 1, at the physical
\* point X
MonomialsAt(X, G) ==
    Computed([idx \in 1..SCc.nPol |->
                 RMul(RPow(RSub(X[1], G[1]), (idx - 1) % SCc.n1),
                      RPow(RSub(X[2], G[2]), (idx - 1) \div SCc.n1))], SCc.nPol)

\* per Gauss point of the elements els: the monomials about G and the
\* values of the field's components
PatchSamples(els, G) ==
    CHOOSE smp \in
        {Computed([t \in 1..Len(pts) |->
              <<CHOOSE P \in {MonomialsAt(X, G) :
                                 X \in {point(lrspline, pts[t][1], pts[t][2])}} : TRUE,
                Computed([l \in 1..inp.ncomp |->
                             FieldValue(lrspline, inp.field, l, pts[t][1], pts[t][2])],
                         inp.ncomp)>>], Len(pts)) :
           pts \in {PatchPoints(els)}} : TRUE

\* sum P*P^t over the Gauss points of smp
FitMatrix(smp) ==
    Computed([k \in 1..SCc.nPol |-> Computed([l \in 1..SCc.nPol |->
        RSum([t \in 1..Len(smp) |-> RMul(smp[t][1][k], smp[t][1][l])])],
        SCc.nPol)], SCc.nPol)

\* sum P*f^t over the Gauss points of smp
FitRhs(smp) ==
    Computed([k \in 1..SCc.nPol |-> Computed([l \in 1..inp.ncomp |->
        RSum([t \in 1..Len(smp) |-> RMul(smp[t][1][k], smp[t][2][l])])],
        inp.ncomp)], SCc.nPol)

\* the least-squares system of the polynomial fit to the field at the Gauss
\* points of the extended support of basis function b, about the point G:
\* <<sum P*P^t, sum P*f^t>>
FitSystem(b, G) ==
    CHOOSE sys \in
        {<<FitMatrix(smp), FitRhs(smp)>> :
           smp \in {PatchSamples(getExtendedSupport(lrspline, b), G)}} : TRUE

\* row 1 of the solution of the least-squares system over the extended
\* support of basis function b about the Greville point numbered q
LocalFit(b, q) ==
    CHOOSE fit \in {DirectSolve(sys[1], sys[2])[2][1] :
                       sys \in {FitSystem(b, GrevillePoint(q))}} : TRUE

PassColumn ==
    (op = "scRecovery" /\ pc \in {"sc_loop", "sc_elem", "ri_call"}) =>
        /\ (pc = "sc_elem" /\ iel = 0) =>
              /\ A = ZeroMatrix(SCc.nPol, SCc.nPol)
              /\ B = ZeroMatrix(SCc.nPol, SCc.nCmp)
        /\ (pc = "sc_loop" /\ ipG >= 1) =>
              \E fit \in {LocalFit(inp.visit[ipG], ipG)} :
                  \A l \in 1..inp.ncomp : sValues[l][ipG] = fit[l]
        /\ \A q \in (ipG + 1)..Cols(sValues), l \in 1..inp.ncomp :
              sValues[l][q] = RZero
        /\ (pc = "ri_call" /\ inp.visit = EnumerationOrder(lrspline)) =>
              \A q \in 1..ipG : \E fit \in {LocalFit(q, q)} :
                  \A l \in 1..inp.ncomp : sValues[l][q] = fit[l]

\* a step of the loop leaves the columns already recorded as they are
ColumnsKept ==
    (op = "scRecovery" /\ pc \in {"sc_loop", "sc_elem"}) =>
        \A q \in 1..ipG, l \in 1..inp.ncomp : sValues'[l][q] = sValues[l][q]

C17_AbsentMeshHandled ==
    (op = "scRecovery" /\ lrspline = NULL /\ pc # "call") =>
        /\ pc = "done"
        /\ ans = NoMesh
        /\ log.order = 0

\* ------------------------------- further claims on globalL2projection

\* the discrete mode has a quadrature table for its order - 1 points
DiscreteTables ==
    /\ getCoord(order(lrspline, 0) - 1) # NoTable
    /\ getCoord(order(lrspline, 1) - 1) # NoTable

\* C18: assembly in globalL2projection: after every element, and so after
\* the element loop, A(a,b) is the sum over the elements assembled and their
\* non-skipped quadrature points of phi_ii*phi_jj*w over the local pairs
\* with connectivity (a,b), and B(a+(r-1)*nnod) the sum of phi_ii*f_r*w, w
\* being the Jacobian/quadrature factor in continuous mode and 1 in discrete
\* mode; the discrete mode samples (order-1) points per direction and asks
\* for no weight table, no nodal coordinates and no parametric area, so that
\* none of them can make it fail.
C18_L2Assembly ==
    InL2 =>
        /\ pc = "loop" => (A = RefA(iel - 1) /\ B = RefB(iel - 1))
        /\ ~inp.continuous =>
              /\ log.getWeight = 0 /\ log.coords = 0 /\ log.area = 0
              /\ (pc = "loop" /\ iel >= 2) =>
                    /\ Rows(sField) = inp.ncomp
                    /\ Cols(sField) = (order(lrspline, 0) - 1) * (order(lrspline, 1) - 1)
              /\ (pc # "call" /\ DiscreteTables) =>
                    \/ pc = "loop"
                    \/ log.solve = 1
                    \/ (inp.fault.kind = "eval" /\ log.evalSolution = inp.fault.at)

\* the two-element bilinear mesh assembled in discrete mode, one point per
\* element and weight 1, in a call whose Gauss order has no table and whose
\* first element has no nodal coordinates
C18_Witness ==
    /\ InL2
    /\ ~inp.continuous
    /\ lrspline = Q21
    /\ inp.nGauss = 0
    /\ inp.fault = [kind |-> "coord", at |-> 1, pt |-> 0]
    /\ pc = "loop"
    /\ iel = 3
    /\ A[1][1] = Frac(1, 16)
    /\ A[2][2] = Frac(1, 8)
    /\ log.evalSolution = 2

\* -------------------- the samples and the points they were evaluated at

\* globalL2projection and scRecovery, each from its own initial states
InitSampling == InitL2 \/ InitSC

NextSampling == NextL2 \/ NextSC

SpecSampling == InitSampling /\ [][NextSampling]_vars

\* the columns of the sample matrix sF of element e and of its expanded
\* parameters stand in the order of the loops over the n1 x n2 Gauss points:
\* column j*n1+i+1 belongs to the point (gpar0[i], gpar1[j])
ColumnsOfElement(sF, e, n1, n2) ==
    \E gp \in {gaussPar(lrspline, n1, n2, e)} :
    \E un \in {unstrGpar(lrspline, n1, n2, e)} :
        /\ Rows(sF) = inp.ncomp
        /\ Cols(sF) = n1 * n2
        /\ \A j \in 0..(n2 - 1), i \in 0..(n1 - 1) :
              /\ un[1][j * n1 + i + 1] = gp[1][i + 1]
              /\ un[2][j * n1 + i + 1] = gp[2][j + 1]
              /\ \A r \in 1..inp.ncomp :
                    sF[r][j * n1 + i + 1] =
                        FieldValue(lrspline, inp.field, r, gp[1][i + 1], gp[2][j + 1])

\* C19: sample/point alignment: in globalL2projection and in scRecovery the
\* sample column read for the quadrature point (i,j) of an element is
\* column j*ng1+i+1 of the matrix evaluated for that element, the column of
\* the point (gpar0[i], gpar1[j]) of the expanded grid: the right-hand side
\* assembled is the sum, over the elements and their points, of the basis
\* values (monomials) at a point times the field at the same point of the
\* same element, also for the points that follow a skipped one.
C19_SamplesAligned ==
    /\ (InL2 /\ pc = "loop") =>
          /\ B = RefB(iel - 1)
          /\ iel >= 2 => ColumnsOfElement(sField, iel - 1, ng1L2, ng2L2)
    /\ (op = "scRecovery" /\ pc = "sc_elem") =>
          /\ B = FitRhs(PatchSamples(log.sampled, passPoint))
          /\ iel >= 1 => ColumnsOfElement(sField, log.sampled[iel], SCc.ng1, SCc.ng2)

\* the first of the four Gauss points of the first element of the
\* two-element mesh skipped: the three that follow it were added with their
\* own samples of the field u*u + r*v
C19_Witness ==
    /\ InL2
    /\ pc = "loop"
    /\ iel = 2
    /\ lrspline = Q21
    /\ inp.continuous
    /\ inp.nGauss = 2
    /\ inp.fault = [kind |-> "zeroJ", at |-> 1, pt |-> 1]
    /\ inp.field.kind = "other"
    /\ RefSkipped(1, 1, 1)
    /\ ~RefSkipped(1, 2, 1)
    /\ sField[1][1] # sField[1][2]
    /\ sField[1][2] # sField[1][4]
    /\ B[1] # RZero

\* ------------------------------------ the columns of scRecovery's samples

\* C20: basis-function/column pairing in scRecovery: the k-th basis function
\* of the enumeration is fitted about the image of its own Greville point
\* (gpar0[k], gpar1[k]) and row 1 of its local solution is written to column
\* k of the sample matrix; when regularInterpolation is reached every column
\* 1..nBasis was written exactly once, the sample matrix has nBasis columns
\* and both parameter arrays nBasis entries, so that the size check of the
\* interpolation does not fail on this path.
C20_ColumnPairing ==
    (op = "scRecovery" /\ lrspline # NULL /\ pc \notin {"call", "crashed"}
        /\ ~SCTableMissing) =>
        /\ Len(prm[1]) = nBasisFunctions(lrspline)
        /\ Len(prm[2]) = nBasisFunctions(lrspline)
        /\ \A q \in 1..nBasisFunctions(lrspline) :
              /\ prm[1][q] = getGrevilleParameter(lrspline, q)[1]
              /\ prm[2][q] = getGrevilleParameter(lrspline, q)[2]
        /\ Rows(sValues) = inp.ncomp
        /\ Cols(sValues) = nBasisFunctions(lrspline)
        /\ pc = "sc_elem" => passPoint = GrevillePoint(inp.visit[ipG + 1])
        /\ (pc = "sc_loop" /\ ipG >= 1) =>
              \E fit \in {LocalFit(ipG, ipG)} :
                  \A l \in 1..inp.ncomp : sValues[l][ipG] = fit[l]
        /\ \A q \in 1..nBasisFunctions(lrspline) :
              log.written[q] = IF q <= ipG THEN 1 ELSE 0
        /\ log.interpolate >= 1 =>
              /\ ipG = nBasisFunctions(lrspline)
              /\ \A q \in 1..nBasisFunctions(lrspline) : log.written[q] = 1
              /\ ~WrongSizes
              /\ (pc = "done" /\ ans = NoMesh) => log.solve = ipG + 1

\* the twelve columns of the 3 x 2 mesh written once each, the seventh
\* holding the fit of the seventh basis function, and handed to the
\* interpolation
C20_Witness ==
    /\ op = "scRecovery"
    /\ lrspline = Q32
    /\ inp.m = 1
    /\ inp.field.kind = "other"
    /\ pc = "ri_solve"
    /\ log.interpolate = 1
    /\ ipG = 12
    /\ Cols(sValues) = 12
    /\ \A q \in 1..12 : log.written[q] = 1
    /\ sValues[1][7] = LocalFit(7, 7)[1]
    /\ sValues[1][7] # sValues[1][6]

\* ------------------------------- the order of steps in globalL2projection

\* a step of the call fails, by the inputs: no quadrature table, or at some
\* element no nodal coordinates, a negative area, a failed evaluation
L2StepFails ==
    \/ ~TablesFound
    \/ /\ inp.fault.at \in 1..nElements(lrspline)
       /\ \/ inp.continuous /\ inp.fault.kind \in {"coord", "area"}
          \/ inp.fault.kind = "eval"

\* what the counts of calls show at any moment of a call
L2Order ==
    InL2 =>
        /\ (~TablesFound /\ pc # "call") =>
              /\ pc = "done"
              /\ ret = FALSE
              /\ iel = 0
              /\ log.evalSolution = 0 /\ log.coords = 0 /\ log.area = 0
        /\ log.evalSolution >= 1 => log.getCoord = 2
        /\ log.solve <= 1
        /\ log.solve = 1 =>
              /\ iel = nElements(lrspline) + 1
              /\ log.evalSolution = nElements(lrspline)
              /\ A = RefA(nElements(lrspline))
              /\ ~L2StepFails
        /\ (L2StepFails /\ pc = "done") => (ret = FALSE /\ log.solve = 0)

\* a step that invokes the solver follows the last element and ends the
\* call; a step that invokes the evaluator follows the lookup
L2SolveLast ==
    InL2 =>
        /\ log'.solve > log.solve =>
              /\ pc = "loop" /\ iel = nElements(lrspline) + 1
              /\ pc' = "done"
        /\ log'.evalSolution > log.evalSolution =>
              /\ pc = "loop" /\ log.getCoord = 2 /\ log.solve = 0

\* C21: ordering in globalL2projection: the quadrature lookup is checked
\* before any element is visited, so that with an unsupported order the
\* field evaluator is never invoked; the sparse solve is invoked at most
\* once per call, only after every element of the mesh was assembled, and
\* never in a call in which a quadrature lookup, a nodal-coordinate
\* extraction, a parametric-area check or a field evaluation has failed.
C21_L2Ordering == []L2Order /\ [][L2SolveLast]_vars

\* the solve invoked once, after both elements of the two-element mesh were
\* evaluated and assembled in continuous mode
C21_Witness ==
    /\ InL2
    /\ pc = "done"
    /\ lrspline = Q21
    /\ inp.continuous
    /\ inp.nGauss = 2
    /\ inp.fault = NoFault
    /\ log.solve = 1
    /\ log.evalSolution = 2
    /\ log.coords = 2
    /\ iel = 3

\* C22: absent mesh in globalL2projection: the call reports success without
\* asking for a quadrature table, invoking the field evaluator or the
\* solver, and leaves sField exactly as the caller supplied it, not reshaped
\* to components x basis functions.
C22_L2EmptyPatch ==
    (op = "globalL2projection" /\ lrspline = NULL) =>
        /\ sField = inp.sField0
        /\ log = NoCalls
        /\ A = <<>> /\ B = <<>> /\ iel = 0
        /\ pc \in {"call", "done"}
        /\ pc = "done" => ret = TRUE

\* a call on an absent mesh for two components that returned true with the
\* caller's 1 x 1 matrix still in sField
C22_Witness ==
    /\ op = "globalL2projection"
    /\ lrspline = NULL
    /\ pc = "done"
    /\ ret = TRUE
    /\ inp.ncomp = 2
    /\ inp.continuous
    /\ sField = <<<<R(7)>>>>
    /\ Rows(sField) # inp.ncomp

====
